---- MODULE Spec2Model ----
(***************************************************************************)
(* FIPLI3 scenario override ledger and resolution engine.                  *)
(*                                                                         *)
(* The SQLite tables are sets of rows (records).  Every CRUD coroutine is  *)
(* one action: it runs inside DatabaseConnection.transaction(), so when    *)
(* operations run one at a time a call that raises leaves the tables as    *)
(* they were (ROLLBACK) and a call that returns has all its writes        *)
(* applied (COMMIT).  The variable last records the call just made: its    *)
(* arguments and result when it returned, the ids it was given and the     *)
(* error message when it raised.                                           *)
(*                                                                         *)
(* A nullable SQL column or an Optional[] argument is NULL (<<>>) or       *)
(* <<v>>; NOT NULL columns, ids and 0/1 flags are plain values.            *)
(***************************************************************************)
EXTENDS Integers, Sequences, FiniteSets, TLC

VARIABLES
    people,                     \* table people
    plans,                      \* table plans
    base_assumptions,           \* table base_assumptions (one row per plan)
    asset_categories,           \* table asset_categories
    assets,                     \* table assets
    asset_owners,               \* table asset_owners
    asset_growth_adjustments,   \* table asset_growth_adjustments
    liability_categories,       \* table liability_categories
    liabilities,                \* table liabilities
    inflows_outflows,           \* table inflows_outflows
    retirement_income_plans,    \* table retirement_income_plans
    retirement_income_owners,   \* table retirement_income_owners
    scenarios,                  \* table scenarios
    scenario_assumptions,       \* table scenario_assumptions
    scenario_growth_adjustments, \* table scenario_growth_adjustments
    scenario_person_overrides,  \* table scenario_person_overrides
    scenario_assets,            \* table scenario_assets
    scenario_liabilities,       \* table scenario_liabilities
    scenario_inflows_outflows,  \* table scenario_inflows_outflows
    scenario_retirement_income, \* table scenario_retirement_income
    connection,                 \* the shared aiosqlite connection's transaction state
    coroutines,                 \* the interleaved calls in flight and their positions
    last,                       \* the call just made: op, args, error, result
    ncalls,                     \* calls made so far, where a specification counts them
    pool                        \* DatabaseConnection._connection_pool and the connections opened

base_tables == <<people, plans, base_assumptions, asset_categories, assets,
                 asset_owners, asset_growth_adjustments, liability_categories,
                 liabilities, inflows_outflows, retirement_income_plans,
                 retirement_income_owners>>

\* what no call changes when calls run one at a time
interleaving == <<connection, coroutines, pool>>

vars == <<people, plans, base_assumptions, asset_categories, assets,
          asset_owners, asset_growth_adjustments, liability_categories,
          liabilities, inflows_outflows, retirement_income_plans,
          retirement_income_owners, scenarios,
          scenario_assumptions, scenario_growth_adjustments,
          scenario_person_overrides, scenario_assets, scenario_liabilities,
          scenario_inflows_outflows, scenario_retirement_income, connection,
          coroutines, last, ncalls, pool>>

-----------------------------------------------------------------------------
(* Python None / SQL NULL, and the values that may stand in its place.      *)

NULL == <<>>

Some(v) == <<v>>

IsNone(x) == x = NULL

Val(x) == x[1]

\* (mutant) an INSERT that sets the overridden-flag whatever the value
FlagAlwaysSet(x) == 1

\* "1 if x is not None else 0", the overridden-flag every INSERT computes
Flag(x) == IF IsNone(x) THEN 0 ELSE 1

\* a Python bool bound to an INTEGER column
SqlBool(b) == IF b THEN 1 ELSE 0

\* "x if x is not None else d" for an Optional[bool] bound to a column
BoolOr(x, d) == IF IsNone(x) THEN d ELSE SqlBool(Val(x))

\* cursor.lastrowid of an INSERT into a table whose integer keys are ids
LastRowId(ids) == IF ids = {} THEN 1
                  ELSE (CHOOSE m \in ids : \A i \in ids : i <= m) + 1

\* rate limits shared by every growth / interest / inflation check
MinRate == 0 - 200

MaxRate == 200

RateOutOfRange(r) == r < MinRate \/ r > MaxRate

-----------------------------------------------------------------------------
(* Outcome of a call.                                                       *)

Returned(op, args, v) ==
    [op |-> op, args |-> args, error |-> "", result |-> Some(v)]

Raised(op, args, msg) ==
    [op |-> op, args |-> args, error |-> msg, result |-> NULL]

Succeeded(op) == last.op = op /\ last.error = ""

Failed(op) == last.op = op /\ last.error # ""

-----------------------------------------------------------------------------
(* The database the calls run against: two households, a plan in each,     *)
(* base facts under the plans and one scenario per plan.                   *)

InitPeople ==
    { [person_id |-> 1, household_id |-> 1, first_name |-> "a",
       last_name |-> "z", retirement_age |-> 3, final_age |-> 5],
      [person_id |-> 2, household_id |-> 1, first_name |-> "a",
       last_name |-> "z", retirement_age |-> 2, final_age |-> 4],
      [person_id |-> 3, household_id |-> 2, first_name |-> "a",
       last_name |-> "z", retirement_age |-> 3, final_age |-> 5] }

InitPlans ==
    { [plan_id |-> 1, household_id |-> 1, reference_person_id |-> 2,
       plan_creation_year |-> 2],
      [plan_id |-> 2, household_id |-> 2, reference_person_id |-> 3,
       plan_creation_year |-> 2] }

InitBaseAssumptions ==
    { [plan_id |-> 1, nest_egg_growth_rate |-> 6, inflation_rate |-> 3,
       annual_retirement_spending |-> 50],
      [plan_id |-> 2, nest_egg_growth_rate |-> 7, inflation_rate |-> 2,
       annual_retirement_spending |-> 40] }

InitAssetCategories ==
    { [asset_category_id |-> 1, household_id |-> 1],
      [asset_category_id |-> 2, household_id |-> 2],
      [asset_category_id |-> 3, household_id |-> 1] }

InitLiabilityCategories ==
    { [liability_category_id |-> 1, household_id |-> 1],
      [liability_category_id |-> 2, household_id |-> 2],
      [liability_category_id |-> 3, household_id |-> 1] }

InitAssets ==
    { [asset_id |-> 1, plan_id |-> 1, asset_category_id |-> 1, value |-> 100,
       include_in_nest_egg |-> 1, independent_growth_rate |-> NULL],
      [asset_id |-> 2, plan_id |-> 1, asset_category_id |-> 1, value |-> 200,
       include_in_nest_egg |-> 1, independent_growth_rate |-> Some(7)],
      [asset_id |-> 3, plan_id |-> 2, asset_category_id |-> 2, value |-> 300,
       include_in_nest_egg |-> 1, independent_growth_rate |-> NULL] }

InitAssetOwners ==
    { [asset_id |-> 1, person_id |-> 1],
      [asset_id |-> 1, person_id |-> 2],
      [asset_id |-> 2, person_id |-> 1],
      [asset_id |-> 3, person_id |-> 3] }

InitLiabilities ==
    { [liability_id |-> 1, plan_id |-> 1, liability_category_id |-> 1,
       value |-> 250, interest_rate |-> 4, include_in_nest_egg |-> 1],
      [liability_id |-> 2, plan_id |-> 2, liability_category_id |-> 2,
       value |-> 150, interest_rate |-> 5, include_in_nest_egg |-> 1] }

InitInflowsOutflows ==
    { [inflow_outflow_id |-> 1, plan_id |-> 1, type |-> "INFLOW",
       annual_amount |-> 75, start_year |-> 3, end_year |-> 6,
       apply_inflation |-> 0],
      [inflow_outflow_id |-> 2, plan_id |-> 2, type |-> "OUTFLOW",
       annual_amount |-> 20, start_year |-> 2, end_year |-> 4,
       apply_inflation |-> 0] }

InitRetirementIncomePlans ==
    { [income_plan_id |-> 1, plan_id |-> 1, annual_income |-> 50,
       start_age |-> 3, end_age |-> Some(5), apply_inflation |-> 0,
       include_in_nest_egg |-> 1],
      [income_plan_id |-> 2, plan_id |-> 1, annual_income |-> 30,
       start_age |-> 3, end_age |-> NULL, apply_inflation |-> 0,
       include_in_nest_egg |-> 1],
      [income_plan_id |-> 3, plan_id |-> 2, annual_income |-> 10,
       start_age |-> 2, end_age |-> NULL, apply_inflation |-> 0,
       include_in_nest_egg |-> 1] }

InitRetirementIncomeOwners ==
    { [income_plan_id |-> 1, person_id |-> 1],
      [income_plan_id |-> 2, person_id |-> 2],
      [income_plan_id |-> 3, person_id |-> 3] }

\* DatabaseConnection._connection_pool once opened: autocommit, no
\* transaction begun; journal holds the tables as they were at BEGIN
InitConnection == [in_transaction |-> FALSE, journal |-> {}]

\* no interleaved call has been started
InitCoroutines == << >>

\* _connection_pool: Optional[aiosqlite.Connection] = None; opened and closed
\* are the connections aiosqlite.connect has returned and close() has closed.
\* The slot is followed under SpecPool; every other specification starts
\* from the connection the transaction state above belongs to.
InitPool == [slot |-> NULL, opened |-> {}, closed |-> {}]

InitScenarios ==
    { [scenario_id |-> 1, plan_id |-> 1, scenario_name |-> "a"],
      [scenario_id |-> 2, plan_id |-> 2, scenario_name |-> "a"] }

Init ==
    /\ people = InitPeople
    /\ plans = InitPlans
    /\ base_assumptions = InitBaseAssumptions
    /\ asset_categories = InitAssetCategories
    /\ assets = InitAssets
    /\ asset_owners = InitAssetOwners
    /\ asset_growth_adjustments = {}
    /\ liability_categories = InitLiabilityCategories
    /\ liabilities = InitLiabilities
    /\ inflows_outflows = InitInflowsOutflows
    /\ retirement_income_plans = InitRetirementIncomePlans
    /\ retirement_income_owners = InitRetirementIncomeOwners
    /\ scenarios = InitScenarios
    /\ scenario_assumptions = {}
    /\ scenario_growth_adjustments = {}
    /\ scenario_person_overrides = {}
    /\ scenario_assets = {}
    /\ scenario_liabilities = {}
    /\ scenario_inflows_outflows = {}
    /\ scenario_retirement_income = {}
    /\ connection = InitConnection
    /\ coroutines = InitCoroutines
    /\ last = [op |-> "none", args |-> NULL, error |-> "", result |-> NULL]
    /\ ncalls = 0
    /\ pool = InitPool

-----------------------------------------------------------------------------
(* ScenariosCRUD.override_asset                                             *)

\* "if value is not None and value < 0" / the growth-rate range check
AssetInputError(value, independent_growth_rate) ==
    IF ~IsNone(value) /\ Val(value) < 0
      THEN "Asset value cannot be negative"
    ELSE IF ~IsNone(independent_growth_rate)
            /\ RateOutOfRange(Val(independent_growth_rate))
      THEN "Growth rate must be between -200 and 200"
    ELSE ""

\* SELECT a.plan_id, s.plan_id AS scenario_plan_id FROM assets a
\* JOIN scenarios s ON s.scenario_id = ? WHERE a.asset_id = ?
AssetScenarioJoin(scenario_id, asset_id) ==
    { [plan_id |-> a.plan_id, scenario_plan_id |-> s.plan_id] :
        a \in {x \in assets : x.asset_id = asset_id},
        s \in {x \in scenarios : x.scenario_id = scenario_id} }

\* (mutant) the check comparing the asset's plan with itself
AssetPlanMismatchSelfCompare(row) == row.plan_id # row.plan_id

\* "if row['plan_id'] != row['scenario_plan_id']"
AssetPlanMismatch(row) == row.plan_id # row.scenario_plan_id

\* (mutant) the existence check compares the asset id with the row id column
ExistingAssetOverrideWrongColumn(scenario_id, asset_id) ==
    { r \in scenario_assets :
        r.scenario_id = scenario_id /\ r.scenario_asset_id = asset_id }

\* SELECT scenario_asset_id FROM scenario_assets
\* WHERE scenario_id = ? AND original_asset_id = ?
ExistingAssetOverride(scenario_id, asset_id) ==
    { r \in scenario_assets :
        r.scenario_id = scenario_id /\ r.original_asset_id = asset_id }

\* (mutant) the UPDATE leaves exclude_from_projection out of its SET list
AssetOverrideUpdateKeepsExclude(row, value, independent_growth_rate, include_in_nest_egg, exclude_from_projection) ==
    [row EXCEPT
       !.overrides_value = IF IsNone(value) THEN @ ELSE 1,
       !.value = IF IsNone(value) THEN @ ELSE value,
       !.overrides_independent_growth_rate =
            IF IsNone(independent_growth_rate) THEN @ ELSE 1,
       !.independent_growth_rate =
            IF IsNone(independent_growth_rate) THEN @
            ELSE independent_growth_rate,
       !.include_in_nest_egg =
            IF IsNone(include_in_nest_egg) THEN @
            ELSE SqlBool(Val(include_in_nest_egg))]

\* the UPDATE scenario_assets SET ... statement assembled from the arguments
AssetOverrideUpdate(row, value, independent_growth_rate, include_in_nest_egg, exclude_from_projection) ==
    [row EXCEPT
       !.overrides_value = IF IsNone(value) THEN @ ELSE 1,
       !.value = IF IsNone(value) THEN @ ELSE value,
       !.overrides_independent_growth_rate =
            IF IsNone(independent_growth_rate) THEN @ ELSE 1,
       !.independent_growth_rate =
            IF IsNone(independent_growth_rate) THEN @
            ELSE independent_growth_rate,
       !.include_in_nest_egg =
            IF IsNone(include_in_nest_egg) THEN @
            ELSE SqlBool(Val(include_in_nest_egg)),
       !.exclude_from_projection = SqlBool(exclude_from_projection)]

\* the INSERT INTO scenario_assets (...) VALUES (...) statement
AssetOverrideInsert(id, scenario_id, asset_id, value, independent_growth_rate, include_in_nest_egg, exclude_from_projection) ==
    [scenario_asset_id |-> id,
     scenario_id |-> scenario_id,
     original_asset_id |-> asset_id,
     overrides_value |-> Flag(value),
     value |-> value,
     overrides_independent_growth_rate |-> Flag(independent_growth_rate),
     independent_growth_rate |-> independent_growth_rate,
     include_in_nest_egg |-> BoolOr(include_in_nest_egg, 1),
     exclude_from_projection |-> SqlBool(exclude_from_projection)]

override_asset(scenario_id, asset_id, value, independent_growth_rate, include_in_nest_egg, exclude_from_projection) ==
    LET op == "override_asset"
        args == [scenario_id |-> scenario_id, asset_id |-> asset_id,
                 value |-> value,
                 independent_growth_rate |-> independent_growth_rate,
                 include_in_nest_egg |-> include_in_nest_egg,
                 exclude_from_projection |-> exclude_from_projection]
        input_error == AssetInputError(value, independent_growth_rate)
        joined == AssetScenarioJoin(scenario_id, asset_id)
        existing == ExistingAssetOverride(scenario_id, asset_id)
        ids == [scenario_id |-> scenario_id, asset_id |-> asset_id]
        raise(msg) == /\ last' = Raised(op, ids, msg)
                      /\ UNCHANGED scenario_assets
    IN  /\ IF input_error # "" THEN raise(input_error)
           ELSE IF joined = {} THEN raise("Asset not found")
           ELSE IF \E row \in joined : AssetPlanMismatch(row)
             THEN raise("Asset must belong to the scenario's plan")
           ELSE IF existing # {}
             THEN \E row \in existing :
                    /\ scenario_assets' =
                         { IF r.scenario_asset_id = row.scenario_asset_id
                             THEN AssetOverrideUpdate(r, value,
                                      independent_growth_rate,
                                      include_in_nest_egg,
                                      exclude_from_projection)
                             ELSE r : r \in scenario_assets }
                    /\ last' = Returned(op, args, row.scenario_asset_id)
           ELSE LET id == LastRowId({r.scenario_asset_id : r \in scenario_assets})
                IN  /\ scenario_assets' = scenario_assets \cup
                         { AssetOverrideInsert(id, scenario_id, asset_id,
                               value, independent_growth_rate,
                               include_in_nest_egg, exclude_from_projection) }
                    /\ last' = Returned(op, args, id)
        /\ UNCHANGED <<base_tables, interleaving, scenario_growth_adjustments,
                       scenarios, scenario_assumptions,
                       scenario_person_overrides, scenario_liabilities,
                       scenario_inflows_outflows, scenario_retirement_income>>

-----------------------------------------------------------------------------
(* ScenariosCRUD.override_liability                                         *)

\* "if value is not None and value < 0" / the interest-rate range check
LiabilityInputError(value, interest_rate) ==
    IF ~IsNone(value) /\ Val(value) < 0
      THEN "Liability value cannot be negative"
    ELSE IF ~IsNone(interest_rate) /\ RateOutOfRange(Val(interest_rate))
      THEN "Interest rate must be between -200 and 200"
    ELSE ""

\* SELECT l.plan_id, s.plan_id AS scenario_plan_id FROM liabilities l
\* JOIN scenarios s ON s.scenario_id = ? WHERE l.liability_id = ?
LiabilityScenarioJoin(scenario_id, liability_id) ==
    { [plan_id |-> l.plan_id, scenario_plan_id |-> s.plan_id] :
        l \in {x \in liabilities : x.liability_id = liability_id},
        s \in {x \in scenarios : x.scenario_id = scenario_id} }

\* "if row['plan_id'] != row['scenario_plan_id']"
LiabilityPlanMismatch(row) == row.plan_id # row.scenario_plan_id

\* SELECT scenario_item_id FROM scenario_liabilities
\* WHERE scenario_id = ? AND original_liability_id = ?
ExistingLiabilityOverride(scenario_id, liability_id) ==
    { r \in scenario_liabilities :
        r.scenario_id = scenario_id /\ r.original_liability_id = liability_id }

\* the UPDATE scenario_liabilities SET ... statement
LiabilityOverrideUpdate(row, value, interest_rate, include_in_nest_egg, exclude_from_projection) ==
    [row EXCEPT
       !.overrides_value = IF IsNone(value) THEN @ ELSE 1,
       !.value = IF IsNone(value) THEN @ ELSE value,
       !.overrides_interest_rate = IF IsNone(interest_rate) THEN @ ELSE 1,
       !.interest_rate = IF IsNone(interest_rate) THEN @ ELSE interest_rate,
       !.include_in_nest_egg =
            IF IsNone(include_in_nest_egg) THEN @
            ELSE SqlBool(Val(include_in_nest_egg)),
       !.exclude_from_projection = SqlBool(exclude_from_projection)]

\* the INSERT INTO scenario_liabilities (...) VALUES (...) statement
LiabilityOverrideInsert(id, scenario_id, liability_id, value, interest_rate, include_in_nest_egg, exclude_from_projection) ==
    [scenario_item_id |-> id,
     scenario_id |-> scenario_id,
     original_liability_id |-> liability_id,
     overrides_value |-> Flag(value),
     value |-> value,
     overrides_interest_rate |-> Flag(interest_rate),
     interest_rate |-> interest_rate,
     include_in_nest_egg |-> BoolOr(include_in_nest_egg, 1),
     exclude_from_projection |-> SqlBool(exclude_from_projection)]

override_liability(scenario_id, liability_id, value, interest_rate, include_in_nest_egg, exclude_from_projection) ==
    LET op == "override_liability"
        args == [scenario_id |-> scenario_id, liability_id |-> liability_id,
                 value |-> value, interest_rate |-> interest_rate,
                 include_in_nest_egg |-> include_in_nest_egg,
                 exclude_from_projection |-> exclude_from_projection]
        ids == [scenario_id |-> scenario_id, liability_id |-> liability_id]
        input_error == LiabilityInputError(value, interest_rate)
        joined == LiabilityScenarioJoin(scenario_id, liability_id)
        existing == ExistingLiabilityOverride(scenario_id, liability_id)
        raise(msg) == /\ last' = Raised(op, ids, msg)
                      /\ UNCHANGED scenario_liabilities
    IN  /\ IF input_error # "" THEN raise(input_error)
           ELSE IF joined = {} THEN raise("Liability not found")
           ELSE IF \E row \in joined : LiabilityPlanMismatch(row)
             THEN raise("Liability must belong to the scenario's plan")
           ELSE IF existing # {}
             THEN \E row \in existing :
                    /\ scenario_liabilities' =
                         { IF r.scenario_item_id = row.scenario_item_id
                             THEN LiabilityOverrideUpdate(r, value,
                                      interest_rate, include_in_nest_egg,
                                      exclude_from_projection)
                             ELSE r : r \in scenario_liabilities }
                    /\ last' = Returned(op, args, row.scenario_item_id)
           ELSE LET id == LastRowId({r.scenario_item_id : r \in scenario_liabilities})
                IN  /\ scenario_liabilities' = scenario_liabilities \cup
                         { LiabilityOverrideInsert(id, scenario_id,
                               liability_id, value, interest_rate,
                               include_in_nest_egg, exclude_from_projection) }
                    /\ last' = Returned(op, args, id)
        /\ UNCHANGED <<base_tables, interleaving, scenario_growth_adjustments,
                       scenarios, scenario_assumptions,
                       scenario_person_overrides, scenario_assets,
                       scenario_inflows_outflows, scenario_retirement_income>>

-----------------------------------------------------------------------------
(* ScenariosCRUD.override_inflow_outflow                                    *)

\* SELECT io.plan_id, s.plan_id AS scenario_plan_id, io.start_year AS
\* original_start_year, io.end_year AS original_end_year FROM inflows_outflows
\* io JOIN scenarios s ON s.scenario_id = ? WHERE io.inflow_outflow_id = ?
InflowOutflowScenarioJoin(scenario_id, inflow_outflow_id) ==
    { [plan_id |-> io.plan_id, scenario_plan_id |-> s.plan_id,
       original_start_year |-> io.start_year,
       original_end_year |-> io.end_year] :
        io \in {x \in inflows_outflows : x.inflow_outflow_id = inflow_outflow_id},
        s \in {x \in scenarios : x.scenario_id = scenario_id} }

\* "if row['plan_id'] != row['scenario_plan_id']"
InflowOutflowPlanMismatch(row) == row.plan_id # row.scenario_plan_id

\* "# Validate years": the supplied year, else the base entry's year
InflowOutflowYearsError(row, start_year, end_year) ==
    LET effective_start == IF ~IsNone(start_year) THEN Val(start_year)
                           ELSE row.original_start_year
        effective_end == IF ~IsNone(end_year) THEN Val(end_year)
                         ELSE row.original_end_year
    IN  IF effective_start > effective_end
          THEN "Start year must be before or equal to end year"
          ELSE ""

\* SELECT scenario_item_id FROM scenario_inflows_outflows
\* WHERE scenario_id = ? AND original_inflow_outflow_id = ?
ExistingInflowOutflowOverride(scenario_id, inflow_outflow_id) ==
    { r \in scenario_inflows_outflows :
        /\ r.scenario_id = scenario_id
        /\ r.original_inflow_outflow_id = inflow_outflow_id }

\* (mutant) an UPDATE that rewrites every flag and value from the call
InflowOutflowOverrideUpdateResetsOmitted(row, annual_amount, start_year, end_year, apply_inflation, exclude_from_projection) ==
    [row EXCEPT
       !.overrides_annual_amount = Flag(annual_amount),
       !.annual_amount = annual_amount,
       !.overrides_start_year = Flag(start_year),
       !.start_year = start_year,
       !.overrides_end_year = Flag(end_year),
       !.end_year = end_year,
       !.apply_inflation = BoolOr(apply_inflation, 0),
       !.exclude_from_projection = SqlBool(exclude_from_projection)]

\* the UPDATE scenario_inflows_outflows SET ... statement
InflowOutflowOverrideUpdate(row, annual_amount, start_year, end_year, apply_inflation, exclude_from_projection) ==
    [row EXCEPT
       !.overrides_annual_amount = IF IsNone(annual_amount) THEN @ ELSE 1,
       !.annual_amount = IF IsNone(annual_amount) THEN @ ELSE annual_amount,
       !.overrides_start_year = IF IsNone(start_year) THEN @ ELSE 1,
       !.start_year = IF IsNone(start_year) THEN @ ELSE start_year,
       !.overrides_end_year = IF IsNone(end_year) THEN @ ELSE 1,
       !.end_year = IF IsNone(end_year) THEN @ ELSE end_year,
       !.apply_inflation =
            IF IsNone(apply_inflation) THEN @
            ELSE SqlBool(Val(apply_inflation)),
       !.exclude_from_projection = SqlBool(exclude_from_projection)]

\* the INSERT INTO scenario_inflows_outflows (...) VALUES (...) statement
InflowOutflowOverrideInsert(id, scenario_id, inflow_outflow_id, annual_amount, start_year, end_year, apply_inflation, exclude_from_projection) ==
    [scenario_item_id |-> id,
     scenario_id |-> scenario_id,
     original_inflow_outflow_id |-> inflow_outflow_id,
     overrides_annual_amount |-> Flag(annual_amount),
     annual_amount |-> annual_amount,
     overrides_start_year |-> Flag(start_year),
     start_year |-> start_year,
     overrides_end_year |-> Flag(end_year),
     end_year |-> end_year,
     apply_inflation |-> BoolOr(apply_inflation, 0),
     exclude_from_projection |-> SqlBool(exclude_from_projection)]

override_inflow_outflow(scenario_id, inflow_outflow_id, annual_amount, start_year, end_year, apply_inflation, exclude_from_projection) ==
    LET op == "override_inflow_outflow"
        args == [scenario_id |-> scenario_id,
                 inflow_outflow_id |-> inflow_outflow_id,
                 annual_amount |-> annual_amount,
                 start_year |-> start_year, end_year |-> end_year,
                 apply_inflation |-> apply_inflation,
                 exclude_from_projection |-> exclude_from_projection]
        ids == [scenario_id |-> scenario_id,
                inflow_outflow_id |-> inflow_outflow_id]
        joined == InflowOutflowScenarioJoin(scenario_id, inflow_outflow_id)
        existing == ExistingInflowOutflowOverride(scenario_id, inflow_outflow_id)
        raise(msg) == /\ last' = Raised(op, ids, msg)
                      /\ UNCHANGED scenario_inflows_outflows
    IN  /\ IF joined = {} THEN raise("Inflow/outflow not found")
           ELSE IF \E row \in joined : InflowOutflowPlanMismatch(row)
             THEN raise("Inflow/outflow must belong to the scenario's plan")
           ELSE IF \E row \in joined :
                     InflowOutflowYearsError(row, start_year, end_year) # ""
             THEN raise("Start year must be before or equal to end year")
           ELSE IF existing # {}
             THEN \E row \in existing :
                    /\ scenario_inflows_outflows' =
                         { IF r.scenario_item_id = row.scenario_item_id
                             THEN InflowOutflowOverrideUpdate(r, annual_amount,
                                      start_year, end_year, apply_inflation,
                                      exclude_from_projection)
                             ELSE r : r \in scenario_inflows_outflows }
                    /\ last' = Returned(op, args, row.scenario_item_id)
           ELSE LET id == LastRowId({r.scenario_item_id :
                                       r \in scenario_inflows_outflows})
                IN  /\ scenario_inflows_outflows' =
                         scenario_inflows_outflows \cup
                         { InflowOutflowOverrideInsert(id, scenario_id,
                               inflow_outflow_id, annual_amount, start_year,
                               end_year, apply_inflation,
                               exclude_from_projection) }
                    /\ last' = Returned(op, args, id)
        /\ UNCHANGED <<base_tables, interleaving, scenario_growth_adjustments,
                       scenarios, scenario_assumptions,
                       scenario_person_overrides, scenario_assets,
                       scenario_liabilities, scenario_retirement_income>>

-----------------------------------------------------------------------------
(* ScenariosCRUD.override_retirement_income                                 *)

\* SELECT rip.plan_id, s.plan_id AS scenario_plan_id, rip.start_age AS
\* original_start_age, rip.end_age AS original_end_age FROM
\* retirement_income_plans rip JOIN scenarios s ON s.scenario_id = ?
\* WHERE rip.income_plan_id = ?
RetirementIncomeScenarioJoin(scenario_id, income_plan_id) ==
    { [plan_id |-> rip.plan_id, scenario_plan_id |-> s.plan_id,
       original_start_age |-> rip.start_age,
       original_end_age |-> rip.end_age] :
        rip \in {x \in retirement_income_plans : x.income_plan_id = income_plan_id},
        s \in {x \in scenarios : x.scenario_id = scenario_id} }

\* "if row['plan_id'] != row['scenario_plan_id']"
RetirementIncomePlanMismatch(row) == row.plan_id # row.scenario_plan_id

\* "# Validate ages": the supplied age, else the base plan's age; an unset
\* end age is not compared
RetirementIncomeAgesError(row, start_age, end_age) ==
    LET effective_start == IF ~IsNone(start_age) THEN Val(start_age)
                           ELSE row.original_start_age
        effective_end == IF ~IsNone(end_age) THEN end_age
                         ELSE row.original_end_age
    IN  IF ~IsNone(effective_end) /\ effective_start > Val(effective_end)
          THEN "Start age must be before or equal to end age"
          ELSE ""

\* SELECT scenario_item_id FROM scenario_retirement_income
\* WHERE scenario_id = ? AND original_income_plan_id = ?
ExistingRetirementIncomeOverride(scenario_id, income_plan_id) ==
    { r \in scenario_retirement_income :
        /\ r.scenario_id = scenario_id
        /\ r.original_income_plan_id = income_plan_id }

\* the UPDATE scenario_retirement_income SET ... statement
RetirementIncomeOverrideUpdate(row, annual_income, start_age, end_age, apply_inflation, include_in_nest_egg, exclude_from_projection) ==
    [row EXCEPT
       !.overrides_annual_income = IF IsNone(annual_income) THEN @ ELSE 1,
       !.annual_income = IF IsNone(annual_income) THEN @ ELSE annual_income,
       !.overrides_start_age = IF IsNone(start_age) THEN @ ELSE 1,
       !.start_age = IF IsNone(start_age) THEN @ ELSE start_age,
       !.overrides_end_age = IF IsNone(end_age) THEN @ ELSE 1,
       !.end_age = IF IsNone(end_age) THEN @ ELSE end_age,
       !.apply_inflation =
            IF IsNone(apply_inflation) THEN @
            ELSE SqlBool(Val(apply_inflation)),
       !.include_in_nest_egg =
            IF IsNone(include_in_nest_egg) THEN @
            ELSE SqlBool(Val(include_in_nest_egg)),
       !.exclude_from_projection = SqlBool(exclude_from_projection)]

\* the INSERT INTO scenario_retirement_income (...) VALUES (...) statement
RetirementIncomeOverrideInsert(id, scenario_id, income_plan_id, annual_income, start_age, end_age, apply_inflation, include_in_nest_egg, exclude_from_projection) ==
    [scenario_item_id |-> id,
     scenario_id |-> scenario_id,
     original_income_plan_id |-> income_plan_id,
     overrides_annual_income |-> Flag(annual_income),
     annual_income |-> annual_income,
     overrides_start_age |-> Flag(start_age),
     start_age |-> start_age,
     overrides_end_age |-> Flag(end_age),
     end_age |-> end_age,
     apply_inflation |-> BoolOr(apply_inflation, 0),
     include_in_nest_egg |-> BoolOr(include_in_nest_egg, 1),
     exclude_from_projection |-> SqlBool(exclude_from_projection)]

override_retirement_income(scenario_id, income_plan_id, annual_income, start_age, end_age, apply_inflation, include_in_nest_egg, exclude_from_projection) ==
    LET op == "override_retirement_income"
        args == [scenario_id |-> scenario_id,
                 income_plan_id |-> income_plan_id,
                 annual_income |-> annual_income,
                 start_age |-> start_age, end_age |-> end_age,
                 apply_inflation |-> apply_inflation,
                 include_in_nest_egg |-> include_in_nest_egg,
                 exclude_from_projection |-> exclude_from_projection]
        ids == [scenario_id |-> scenario_id, income_plan_id |-> income_plan_id]
        joined == RetirementIncomeScenarioJoin(scenario_id, income_plan_id)
        existing == ExistingRetirementIncomeOverride(scenario_id, income_plan_id)
        raise(msg) == /\ last' = Raised(op, ids, msg)
                      /\ UNCHANGED scenario_retirement_income
    IN  /\ IF joined = {} THEN raise("Retirement income plan not found")
           ELSE IF \E row \in joined : RetirementIncomePlanMismatch(row)
             THEN raise("Income plan must belong to the scenario's plan")
           ELSE IF \E row \in joined :
                     RetirementIncomeAgesError(row, start_age, end_age) # ""
             THEN raise("Start age must be before or equal to end age")
           ELSE IF existing # {}
             THEN \E row \in existing :
                    /\ scenario_retirement_income' =
                         { IF r.scenario_item_id = row.scenario_item_id
                             THEN RetirementIncomeOverrideUpdate(r,
                                      annual_income, start_age, end_age,
                                      apply_inflation, include_in_nest_egg,
                                      exclude_from_projection)
                             ELSE r : r \in scenario_retirement_income }
                    /\ last' = Returned(op, args, row.scenario_item_id)
           ELSE LET id == LastRowId({r.scenario_item_id :
                                       r \in scenario_retirement_income})
                IN  /\ scenario_retirement_income' =
                         scenario_retirement_income \cup
                         { RetirementIncomeOverrideInsert(id, scenario_id,
                               income_plan_id, annual_income, start_age,
                               end_age, apply_inflation, include_in_nest_egg,
                               exclude_from_projection) }
                    /\ last' = Returned(op, args, id)
        /\ UNCHANGED <<base_tables, interleaving, scenario_growth_adjustments,
                       scenarios, scenario_assumptions,
                       scenario_person_overrides, scenario_assets,
                       scenario_liabilities, scenario_inflows_outflows>>

-----------------------------------------------------------------------------
(* ScenariosCRUD.update_person_overrides                                    *)

\* SELECT p.retirement_age, p.final_age, p.household_id, pl.household_id AS
\* scenario_household_id FROM people p JOIN scenarios s ON s.scenario_id = ?
\* JOIN plans pl ON s.plan_id = pl.plan_id WHERE p.person_id = ?
PersonScenarioJoin(scenario_id, person_id) ==
    { [retirement_age |-> x[1].retirement_age,
       final_age |-> x[1].final_age,
       household_id |-> x[1].household_id,
       scenario_household_id |-> x[3].household_id] :
        x \in { y \in people \X scenarios \X plans :
                  /\ y[1].person_id = person_id
                  /\ y[2].scenario_id = scenario_id
                  /\ y[2].plan_id = y[3].plan_id } }

\* "if row['household_id'] != row['scenario_household_id']"
PersonHouseholdMismatch(row) == row.household_id # row.scenario_household_id

\* (mutant) the age checks applied to the supplied ages only
PersonAgesErrorSuppliedOnly(row, retirement_age, final_age) ==
    IF ~IsNone(retirement_age) /\ Val(retirement_age) <= 0
      THEN "Retirement age must be positive"
    ELSE IF ~IsNone(retirement_age) /\ ~IsNone(final_age)
            /\ Val(final_age) <= Val(retirement_age)
      THEN "Final age must be greater than retirement age"
    ELSE ""

\* "# Validate ages": each age is the supplied one, else the person's own
PersonAgesError(row, retirement_age, final_age) ==
    LET current_retirement_age ==
            IF ~IsNone(retirement_age) THEN Val(retirement_age)
            ELSE row.retirement_age
        current_final_age ==
            IF ~IsNone(final_age) THEN Val(final_age) ELSE row.final_age
    IN  IF current_retirement_age <= 0
          THEN "Retirement age must be positive"
        ELSE IF current_final_age <= current_retirement_age
          THEN "Final age must be greater than retirement age"
        ELSE ""

\* SELECT 1 FROM scenario_person_overrides
\* WHERE scenario_id = ? AND person_id = ?
ExistingPersonOverride(scenario_id, person_id) ==
    { r \in scenario_person_overrides :
        r.scenario_id = scenario_id /\ r.person_id = person_id }

\* the UPDATE scenario_person_overrides SET ... statement (not run when no
\* age is supplied)
PersonOverrideUpdate(row, retirement_age, final_age) ==
    [row EXCEPT
       !.overrides_retirement_age = IF IsNone(retirement_age) THEN @ ELSE 1,
       !.retirement_age = IF IsNone(retirement_age) THEN @ ELSE retirement_age,
       !.overrides_final_age = IF IsNone(final_age) THEN @ ELSE 1,
       !.final_age = IF IsNone(final_age) THEN @ ELSE final_age]

\* the INSERT INTO scenario_person_overrides (...) VALUES (...) statement
PersonOverrideInsert(scenario_id, person_id, retirement_age, final_age) ==
    [scenario_id |-> scenario_id,
     person_id |-> person_id,
     overrides_retirement_age |-> Flag(retirement_age),
     retirement_age |-> retirement_age,
     overrides_final_age |-> Flag(final_age),
     final_age |-> final_age]

update_person_overrides(scenario_id, person_id, retirement_age, final_age) ==
    LET op == "update_person_overrides"
        args == [scenario_id |-> scenario_id, person_id |-> person_id,
                 retirement_age |-> retirement_age, final_age |-> final_age]
        ids == [scenario_id |-> scenario_id, person_id |-> person_id]
        joined == PersonScenarioJoin(scenario_id, person_id)
        existing == ExistingPersonOverride(scenario_id, person_id)
        ages_error(row) == PersonAgesError(row, retirement_age, final_age)
        raise(msg) == /\ last' = Raised(op, ids, msg)
                      /\ UNCHANGED scenario_person_overrides
    IN  /\ IF joined = {} THEN raise("Person not found")
           ELSE IF \E row \in joined : PersonHouseholdMismatch(row)
             THEN raise("Person must belong to the scenario's household")
           ELSE IF \E row \in joined : ages_error(row) # ""
             THEN \E row \in joined : raise(ages_error(row))
           ELSE IF existing # {}
             THEN /\ scenario_person_overrides' =
                       { IF r \in existing
                           THEN PersonOverrideUpdate(r, retirement_age,
                                                     final_age)
                           ELSE r : r \in scenario_person_overrides }
                  /\ last' = Returned(op, args, TRUE)
           ELSE /\ scenario_person_overrides' =
                     scenario_person_overrides \cup
                     { PersonOverrideInsert(scenario_id, person_id,
                                            retirement_age, final_age) }
                /\ last' = Returned(op, args, TRUE)
        /\ UNCHANGED <<base_tables, interleaving, scenario_growth_adjustments,
                       scenarios, scenario_assumptions,
                       scenario_assets, scenario_liabilities,
                       scenario_inflows_outflows, scenario_retirement_income>>

-----------------------------------------------------------------------------
(* ScenariosCRUD.update_scenario                                            *)
(* assumption_overrides is NULL for None or an empty dict, else <<o>> with  *)
(* o.k the value under key k, NULL when the key is absent or maps to None.  *)

\* the range checks on the three values read with assumption_overrides.get
AssumptionsInputError(growth_rate, inflation_rate, spending) ==
    IF ~IsNone(growth_rate) /\ RateOutOfRange(Val(growth_rate))
      THEN "Growth rate must be between -200 and 200"
    ELSE IF ~IsNone(inflation_rate) /\ RateOutOfRange(Val(inflation_rate))
      THEN "Inflation rate must be between -200 and 200"
    ELSE IF ~IsNone(spending) /\ Val(spending) < 0
      THEN "Annual retirement spending cannot be negative"
    ELSE ""

\* (mutant) the existence SELECT without its WHERE scenario_id = ?
ExistingAssumptionsAnyScenario(scenario_id) == scenario_assumptions

\* SELECT 1 FROM scenario_assumptions WHERE scenario_id = ?
ExistingAssumptions(scenario_id) ==
    { r \in scenario_assumptions : r.scenario_id = scenario_id }

\* (mutant) an UPDATE that writes all three flags from the call's keys
AssumptionsUpdateAllKeys(row, growth_rate, inflation_rate, spending) ==
    [row EXCEPT
       !.overrides_nest_egg_growth_rate = Flag(growth_rate),
       !.nest_egg_growth_rate = growth_rate,
       !.overrides_inflation_rate = Flag(inflation_rate),
       !.inflation_rate = inflation_rate,
       !.overrides_annual_retirement_spending = Flag(spending),
       !.annual_retirement_spending = spending]

\* the UPDATE scenario_assumptions SET ... statement (not run when every
\* value is None)
AssumptionsUpdate(row, growth_rate, inflation_rate, spending) ==
    [row EXCEPT
       !.overrides_nest_egg_growth_rate = IF IsNone(growth_rate) THEN @ ELSE 1,
       !.nest_egg_growth_rate = IF IsNone(growth_rate) THEN @ ELSE growth_rate,
       !.overrides_inflation_rate = IF IsNone(inflation_rate) THEN @ ELSE 1,
       !.inflation_rate = IF IsNone(inflation_rate) THEN @ ELSE inflation_rate,
       !.overrides_annual_retirement_spending =
            IF IsNone(spending) THEN @ ELSE 1,
       !.annual_retirement_spending = IF IsNone(spending) THEN @ ELSE spending]

\* the INSERT INTO scenario_assumptions (...) VALUES (...) statement
AssumptionsInsert(scenario_id, growth_rate, inflation_rate, spending) ==
    [scenario_id |-> scenario_id,
     overrides_nest_egg_growth_rate |-> Flag(growth_rate),
     nest_egg_growth_rate |-> growth_rate,
     overrides_inflation_rate |-> Flag(inflation_rate),
     inflation_rate |-> inflation_rate,
     overrides_annual_retirement_spending |-> Flag(spending),
     annual_retirement_spending |-> spending]

\* foreign key scenario_assumptions.scenario_id -> scenarios.scenario_id,
\* enforced on the connection (PRAGMA foreign_keys = ON)
AssumptionsForeignKeyViolated(scenario_id) ==
    ~ \E s \in scenarios : s.scenario_id = scenario_id

\* UPDATE scenarios SET scenario_name = ? WHERE scenario_id = ?
RenameScenario(scenario_id, scenario_name) ==
    { IF s.scenario_id = scenario_id
        THEN [s EXCEPT !.scenario_name = Val(scenario_name)]
        ELSE s : s \in scenarios }

update_scenario(scenario_id, scenario_name, assumption_overrides) ==
    LET op == "update_scenario"
        args == [scenario_id |-> scenario_id, scenario_name |-> scenario_name,
                 assumption_overrides |-> assumption_overrides]
        ids == [scenario_id |-> scenario_id]
        rowcount == Cardinality({ s \in scenarios : s.scenario_id = scenario_id })
        renamed == IF IsNone(scenario_name) THEN scenarios
                   ELSE RenameScenario(scenario_id, scenario_name)
        o == Val(assumption_overrides)
        growth_rate == o.nest_egg_growth_rate
        inflation_rate == o.inflation_rate
        spending == o.annual_retirement_spending
        input_error == AssumptionsInputError(growth_rate, inflation_rate, spending)
        existing == ExistingAssumptions(scenario_id)
        raise(msg) == /\ last' = Raised(op, ids, msg)
                      /\ UNCHANGED <<scenarios, scenario_assumptions>>
    IN  /\ IF ~IsNone(scenario_name) /\ rowcount = 0
             THEN /\ last' = Returned(op, args, FALSE)
                  /\ UNCHANGED <<scenarios, scenario_assumptions>>
           ELSE IF IsNone(assumption_overrides)
             THEN /\ scenarios' = renamed
                  /\ UNCHANGED scenario_assumptions
                  /\ last' = Returned(op, args, TRUE)
           ELSE IF input_error # "" THEN raise(input_error)
           ELSE IF existing # {}
             THEN /\ scenario_assumptions' =
                       { IF r \in existing
                           THEN AssumptionsUpdate(r, growth_rate,
                                                  inflation_rate, spending)
                           ELSE r : r \in scenario_assumptions }
                  /\ scenarios' = renamed
                  /\ last' = Returned(op, args, TRUE)
           ELSE IF AssumptionsForeignKeyViolated(scenario_id)
             THEN raise("FOREIGN KEY constraint failed")
           ELSE /\ scenario_assumptions' = scenario_assumptions \cup
                     { AssumptionsInsert(scenario_id, growth_rate,
                                         inflation_rate, spending) }
                /\ scenarios' = renamed
                /\ last' = Returned(op, args, TRUE)
        /\ UNCHANGED <<base_tables, interleaving, scenario_growth_adjustments,
                       scenario_person_overrides, scenario_assets,
                       scenario_liabilities, scenario_inflows_outflows,
                       scenario_retirement_income>>

-----------------------------------------------------------------------------
(* DatabaseConnection.transaction when calls run one at a time: BEGIN, the  *)
(* statements of the with-block, then COMMIT, or ROLLBACK when the block    *)
(* raised.                                                                  *)

\* (mutant) an except branch that re-raises without rolling back
RollbackKeepsWrites(before, written) == written

\* "except Exception: await conn.execute('ROLLBACK')": a table is put back
\* to what it was at BEGIN, whatever the block had written to it
Rollback(before, written) == before

-----------------------------------------------------------------------------
(* ScenariosCRUD.create_scenario                                            *)

\* (mutant) a plan check that every plan_id passes
PlanExistsAlways(plan_id) == TRUE

\* SELECT 1 FROM plans WHERE plan_id = ?
PlanExists(plan_id) == \E p \in plans : p.plan_id = plan_id

\* INSERT INTO scenarios (plan_id, scenario_name) VALUES (?, ?)
ScenarioInsert(scenario_id, plan_id, scenario_name) ==
    [scenario_id |-> scenario_id, plan_id |-> plan_id,
     scenario_name |-> scenario_name]

create_scenario(plan_id, scenario_name, assumption_overrides) ==
    LET op == "create_scenario"
        args == [plan_id |-> plan_id, scenario_name |-> scenario_name,
                 assumption_overrides |-> assumption_overrides]
        ids == [plan_id |-> plan_id]
        scenario_id == LastRowId({ s.scenario_id : s \in scenarios })
        written == scenarios \cup
                     { ScenarioInsert(scenario_id, plan_id, scenario_name) }
        o == Val(assumption_overrides)
        growth_rate == o.nest_egg_growth_rate
        inflation_rate == o.inflation_rate
        spending == o.annual_retirement_spending
        input_error == AssumptionsInputError(growth_rate, inflation_rate, spending)
    IN  /\ IF ~PlanExists(plan_id)
             THEN /\ last' = Raised(op, ids, "Invalid plan_id")
                  /\ UNCHANGED <<scenarios, scenario_assumptions>>
           ELSE IF IsNone(assumption_overrides)
             THEN /\ scenarios' = written
                  /\ UNCHANGED scenario_assumptions
                  /\ last' = Returned(op, args, scenario_id)
           ELSE IF input_error # ""
             THEN /\ last' = Raised(op, ids, input_error)
                  /\ scenarios' = Rollback(scenarios, written)
                  /\ UNCHANGED scenario_assumptions
           ELSE /\ scenarios' = written
                /\ scenario_assumptions' = scenario_assumptions \cup
                     { AssumptionsInsert(scenario_id, growth_rate,
                                         inflation_rate, spending) }
                /\ last' = Returned(op, args, scenario_id)
        /\ UNCHANGED <<base_tables, interleaving, scenario_growth_adjustments,
                       scenario_person_overrides, scenario_assets,
                       scenario_liabilities, scenario_inflows_outflows,
                       scenario_retirement_income>>

-----------------------------------------------------------------------------
(* ScenariosCRUD.delete_scenario: BaseCRUD.delete on table scenarios.       *)

\* rows of a scenario_* table that the foreign key on scenario_id removes
\* with the scenario (ON DELETE CASCADE)
ScenarioCascade(table, scenario_id) ==
    { r \in table : r.scenario_id # scenario_id }

\* (mutant) the DELETE without its WHERE clause
DeleteFromScenariosAll(scenario_id) == {}

\* DELETE FROM scenarios WHERE scenario_id = ?
DeleteFromScenarios(scenario_id) ==
    { s \in scenarios : s.scenario_id # scenario_id }

delete_scenario(scenario_id) ==
    LET op == "delete_scenario"
        args == [scenario_id |-> scenario_id]
        rowcount == Cardinality({ s \in scenarios : s.scenario_id = scenario_id })
    IN  /\ scenarios' = DeleteFromScenarios(scenario_id)
        /\ scenario_assumptions' = ScenarioCascade(scenario_assumptions, scenario_id)
        /\ scenario_growth_adjustments' =
               ScenarioCascade(scenario_growth_adjustments, scenario_id)
        /\ scenario_person_overrides' =
               ScenarioCascade(scenario_person_overrides, scenario_id)
        /\ scenario_assets' = ScenarioCascade(scenario_assets, scenario_id)
        /\ scenario_liabilities' = ScenarioCascade(scenario_liabilities, scenario_id)
        /\ scenario_inflows_outflows' =
               ScenarioCascade(scenario_inflows_outflows, scenario_id)
        /\ scenario_retirement_income' =
               ScenarioCascade(scenario_retirement_income, scenario_id)
        /\ last' = Returned(op, args, rowcount > 0)
        /\ UNCHANGED <<base_tables, interleaving>>

-----------------------------------------------------------------------------
(* AssetsCRUD.add_growth_adjustment                                         *)

\* the two checks made before the transaction is opened
GrowthAdjustmentInputError(start_year, end_year, growth_rate) ==
    IF start_year > end_year
      THEN "Start year must be before or equal to end year"
    ELSE IF RateOutOfRange(growth_rate)
      THEN "Growth rate must be between -200 and 200"
    ELSE ""

\* (mutant) the WHERE clause without its third alternative
AssetAdjustmentOverlapNoContained(r, start_year, end_year) ==
    \/ (r.start_year <= start_year /\ r.end_year >= start_year)
    \/ (r.start_year <= end_year /\ r.end_year >= end_year)

\* (start_year <= ? AND end_year >= ?) OR (start_year <= ? AND end_year >= ?)
\* OR (start_year >= ? AND end_year <= ?), bound to
\* (start_year, start_year, end_year, end_year, start_year, end_year)
AssetAdjustmentOverlap(r, start_year, end_year) ==
    \/ (r.start_year <= start_year /\ r.end_year >= start_year)
    \/ (r.start_year <= end_year /\ r.end_year >= end_year)
    \/ (r.start_year >= start_year /\ r.end_year <= end_year)

\* SELECT 1 FROM asset_growth_adjustments WHERE asset_id = ? AND (...)
OverlappingAssetAdjustments(asset_id, start_year, end_year) ==
    { r \in asset_growth_adjustments :
        /\ r.asset_id = asset_id
        /\ AssetAdjustmentOverlap(r, start_year, end_year) }

\* foreign key asset_growth_adjustments.asset_id -> assets.asset_id
AssetAdjustmentForeignKeyViolated(asset_id) ==
    ~ \E a \in assets : a.asset_id = asset_id

\* INSERT INTO asset_growth_adjustments (asset_id, start_year, end_year,
\* growth_rate) VALUES (?, ?, ?, ?)
AssetAdjustmentInsert(id, asset_id, start_year, end_year, growth_rate) ==
    [adjustment_id |-> id, asset_id |-> asset_id, start_year |-> start_year,
     end_year |-> end_year, growth_rate |-> growth_rate]

add_growth_adjustment(asset_id, start_year, end_year, growth_rate) ==
    LET op == "add_growth_adjustment"
        args == [asset_id |-> asset_id, start_year |-> start_year,
                 end_year |-> end_year, growth_rate |-> growth_rate]
        input_error == GrowthAdjustmentInputError(start_year, end_year, growth_rate)
        id == LastRowId({ r.adjustment_id : r \in asset_growth_adjustments })
        raise(msg) == /\ last' = Raised(op, args, msg)
                      /\ UNCHANGED asset_growth_adjustments
    IN  /\ IF input_error # "" THEN raise(input_error)
           ELSE IF OverlappingAssetAdjustments(asset_id, start_year, end_year) # {}
             THEN raise("Growth adjustment overlaps with existing adjustment")
           ELSE IF AssetAdjustmentForeignKeyViolated(asset_id)
             THEN raise("FOREIGN KEY constraint failed")
           ELSE /\ asset_growth_adjustments' = asset_growth_adjustments \cup
                     { AssetAdjustmentInsert(id, asset_id, start_year,
                                             end_year, growth_rate) }
                /\ last' = Returned(op, args, id)
        /\ UNCHANGED <<people, plans, base_assumptions, asset_categories,
                       assets, asset_owners, liability_categories, liabilities,
                       inflows_outflows, retirement_income_plans,
                       retirement_income_owners, interleaving,
                       scenarios, scenario_assumptions,
                       scenario_growth_adjustments, scenario_person_overrides,
                       scenario_assets, scenario_liabilities,
                       scenario_inflows_outflows, scenario_retirement_income>>

-----------------------------------------------------------------------------
(* ScenariosCRUD.add_growth_adjustment                                      *)

\* the WHERE clause of the scenario-level overlap query, bound to
\* (start_year, start_year, end_year, end_year, start_year, end_year)
ScenarioAdjustmentOverlap(r, start_year, end_year) ==
    \/ (r.start_year <= start_year /\ r.end_year >= start_year)
    \/ (r.start_year <= end_year /\ r.end_year >= end_year)
    \/ (r.start_year >= start_year /\ r.end_year <= end_year)

\* SELECT 1 FROM scenario_growth_adjustments WHERE scenario_id = ? AND (...)
OverlappingScenarioAdjustments(scenario_id, start_year, end_year) ==
    { r \in scenario_growth_adjustments :
        /\ r.scenario_id = scenario_id
        /\ ScenarioAdjustmentOverlap(r, start_year, end_year) }

\* foreign key scenario_growth_adjustments.scenario_id -> scenarios
ScenarioAdjustmentForeignKeyViolated(scenario_id) ==
    ~ \E s \in scenarios : s.scenario_id = scenario_id

\* INSERT INTO scenario_growth_adjustments (scenario_id, start_year,
\* end_year, growth_rate) VALUES (?, ?, ?, ?)
ScenarioAdjustmentInsert(id, scenario_id, start_year, end_year, growth_rate) ==
    [adjustment_id |-> id, scenario_id |-> scenario_id,
     start_year |-> start_year, end_year |-> end_year,
     growth_rate |-> growth_rate]

add_scenario_growth_adjustment(scenario_id, start_year, end_year, growth_rate) ==
    LET op == "add_scenario_growth_adjustment"
        args == [scenario_id |-> scenario_id, start_year |-> start_year,
                 end_year |-> end_year, growth_rate |-> growth_rate]
        input_error == GrowthAdjustmentInputError(start_year, end_year, growth_rate)
        id == LastRowId({ r.adjustment_id : r \in scenario_growth_adjustments })
        raise(msg) == /\ last' = Raised(op, args, msg)
                      /\ UNCHANGED scenario_growth_adjustments
    IN  /\ IF input_error # "" THEN raise(input_error)
           ELSE IF OverlappingScenarioAdjustments(scenario_id, start_year,
                                                  end_year) # {}
             THEN raise("Growth adjustment overlaps with existing adjustment")
           ELSE IF ScenarioAdjustmentForeignKeyViolated(scenario_id)
             THEN raise("FOREIGN KEY constraint failed")
           ELSE /\ scenario_growth_adjustments' =
                     scenario_growth_adjustments \cup
                     { ScenarioAdjustmentInsert(id, scenario_id, start_year,
                                                end_year, growth_rate) }
                /\ last' = Returned(op, args, id)
        /\ UNCHANGED <<base_tables, interleaving, scenarios,
                       scenario_assumptions, scenario_person_overrides,
                       scenario_assets, scenario_liabilities,
                       scenario_inflows_outflows, scenario_retirement_income>>

-----------------------------------------------------------------------------
(* Read side: the views and the queries over them.                          *)

\* view scenario_effective_assets: every asset of the scenario's plan, merged
\* field by field with the scenario's override row when there is one and left
\* out when that row excludes it.  (Columns the merge rule does not cover are
\* not modelled.)
scenario_effective_assets ==
    UNION { LET s == sa[1]
                a == sa[2]
                ovr == { o \in scenario_assets :
                           /\ o.scenario_id = s.scenario_id
                           /\ o.original_asset_id = a.asset_id }
                merged(o) ==
                  [scenario_id |-> s.scenario_id,
                   asset_id |-> a.asset_id,
                   plan_id |-> a.plan_id,
                   asset_category_id |-> a.asset_category_id,
                   value |-> IF o.overrides_value = 1 THEN o.value
                             ELSE Some(a.value),
                   independent_growth_rate |->
                       IF o.overrides_independent_growth_rate = 1
                         THEN o.independent_growth_rate
                         ELSE a.independent_growth_rate]
                inherited ==
                  [scenario_id |-> s.scenario_id,
                   asset_id |-> a.asset_id,
                   plan_id |-> a.plan_id,
                   asset_category_id |-> a.asset_category_id,
                   value |-> Some(a.value),
                   independent_growth_rate |-> a.independent_growth_rate]
            IN  IF ovr = {} THEN {inherited}
                ELSE { merged(o) :
                         o \in {x \in ovr : x.exclude_from_projection = 0} }
          : sa \in { x \in scenarios \X assets : x[2].plan_id = x[1].plan_id } }

\* owners of an asset as the two LEFT JOINs deliver them
AssetOwnerIds(asset_id) ==
    { p.person_id : p \in { x \in people :
          \E ao \in asset_owners :
              ao.asset_id = asset_id /\ ao.person_id = x.person_id } }

\* (mutant) the query without its GROUP BY: one row per joined owner
get_scenario_effective_assets_ungrouped(scenario_id) ==
    { [asset_id |-> sea.asset_id,
       scenario_id |-> scenario_id,
       value |-> sea.value,
       independent_growth_rate |-> sea.independent_growth_rate,
       owner_ids |-> {p}] :
        sea \in { x \in scenario_effective_assets :
                    x.scenario_id = scenario_id },
        p \in UNION { AssetOwnerIds(a.asset_id) : a \in assets } }

\* ScenariosCRUD.get_scenario_effective_assets: the view joined to its category
\* and owners, one row per GROUP BY sea.asset_id (the list order is not
\* modelled; the bare columns of a group come from one of its rows)
get_scenario_effective_assets(scenario_id) ==
    LET rows == { sea \in scenario_effective_assets :
                    /\ sea.scenario_id = scenario_id
                    /\ \E ac \in asset_categories :
                          ac.asset_category_id = sea.asset_category_id }
        groups == { sea.asset_id : sea \in rows }
        pick(g) == CHOOSE sea \in rows : sea.asset_id = g
    IN  { [asset_id |-> g,
           scenario_id |-> scenario_id,
           value |-> pick(g).value,
           independent_growth_rate |-> pick(g).independent_growth_rate,
           owner_ids |-> AssetOwnerIds(g)] : g \in groups }

\* AssetsCRUD.get_asset: the base record with its owners, NULL when not found
get_asset(asset_id) ==
    LET rows == { a \in assets :
                    /\ a.asset_id = asset_id
                    /\ \E ac \in asset_categories :
                          ac.asset_category_id = a.asset_category_id }
    IN  IF rows = {} THEN NULL
        ELSE Some([row |-> CHOOSE a \in rows : TRUE,
                   owner_ids |-> AssetOwnerIds(asset_id)])

\* COUNT(DISTINCT column) over the rows LEFT JOINed to one scenario
CountDistinct(keys) == Cardinality(keys)

\* ScenariosCRUD.get_scenario: the scenario joined to its plan, the raw
\* assumption columns and the override counts; NULL when not found
get_scenario(scenario_id) ==
    LET rows == { s \in scenarios :
                    /\ s.scenario_id = scenario_id
                    /\ \E p \in plans : p.plan_id = s.plan_id }
        s == CHOOSE x \in rows : TRUE
        sas == { x \in scenario_assumptions : x.scenario_id = scenario_id }
        sa == CHOOSE x \in sas : TRUE
    IN  IF rows = {} THEN NULL
        ELSE Some(
          [scenario_id |-> s.scenario_id,
           plan_id |-> s.plan_id,
           scenario_name |-> s.scenario_name,
           nest_egg_growth_rate |->
               IF sas = {} THEN NULL ELSE sa.nest_egg_growth_rate,
           inflation_rate |->
               IF sas = {} THEN NULL ELSE sa.inflation_rate,
           annual_retirement_spending |->
               IF sas = {} THEN NULL ELSE sa.annual_retirement_spending,
           num_person_overrides |-> CountDistinct(
               { r.person_id : r \in { x \in scenario_person_overrides :
                     x.scenario_id = scenario_id } }),
           num_asset_overrides |-> CountDistinct(
               { r.scenario_asset_id : r \in { x \in scenario_assets :
                     x.scenario_id = scenario_id } }),
           num_liability_overrides |-> CountDistinct(
               { r.scenario_item_id : r \in { x \in scenario_liabilities :
                     x.scenario_id = scenario_id } }),
           num_inflow_outflow_overrides |-> CountDistinct(
               { r.scenario_item_id : r \in { x \in scenario_inflows_outflows :
                     x.scenario_id = scenario_id } }),
           num_retirement_income_overrides |-> CountDistinct(
               { r.scenario_item_id : r \in { x \in scenario_retirement_income :
                     x.scenario_id = scenario_id } })])

\* view scenario_effective_assumptions: one row per scenario, each of the
\* three assumptions taken from the scenario's assumption row when that row
\* flags the field as overridden and from the plan's base assumptions
\* otherwise (also when the scenario has no assumption row)
scenario_effective_assumptions ==
    UNION { LET s == sb[1]
                b == sb[2]
                sas == { x \in scenario_assumptions :
                           x.scenario_id = s.scenario_id }
                merged(sa) ==
                  [scenario_id |-> s.scenario_id,
                   plan_id |-> s.plan_id,
                   nest_egg_growth_rate |->
                       IF sa.overrides_nest_egg_growth_rate = 1
                         THEN sa.nest_egg_growth_rate
                         ELSE Some(b.nest_egg_growth_rate),
                   inflation_rate |->
                       IF sa.overrides_inflation_rate = 1
                         THEN sa.inflation_rate
                         ELSE Some(b.inflation_rate),
                   annual_retirement_spending |->
                       IF sa.overrides_annual_retirement_spending = 1
                         THEN sa.annual_retirement_spending
                         ELSE Some(b.annual_retirement_spending)]
                inherited ==
                  [scenario_id |-> s.scenario_id,
                   plan_id |-> s.plan_id,
                   nest_egg_growth_rate |-> Some(b.nest_egg_growth_rate),
                   inflation_rate |-> Some(b.inflation_rate),
                   annual_retirement_spending |->
                       Some(b.annual_retirement_spending)]
            IN  IF sas = {} THEN {inherited}
                ELSE { merged(sa) : sa \in sas }
          : sb \in { x \in scenarios \X base_assumptions :
                       x[2].plan_id = x[1].plan_id } }

\* (mutant) the query run against the scenario's own assumption columns, as
\* get_scenario reads them
get_scenario_effective_assumptions_raw(scenario_id) ==
    LET found == get_scenario(scenario_id)
    IN  IF IsNone(found) THEN NULL
        ELSE Some([scenario_id |-> scenario_id,
                   plan_id |-> Val(found).plan_id,
                   nest_egg_growth_rate |-> Val(found).nest_egg_growth_rate,
                   inflation_rate |-> Val(found).inflation_rate,
                   annual_retirement_spending |->
                       Val(found).annual_retirement_spending])

\* ScenariosCRUD.get_scenario_effective_assumptions: the view's row of the
\* scenario as a dict, NULL standing for the empty dict returned when the
\* view has no row
get_scenario_effective_assumptions(scenario_id) ==
    LET rows == { r \in scenario_effective_assumptions :
                    r.scenario_id = scenario_id }
    IN  IF rows = {} THEN NULL ELSE Some(CHOOSE r \in rows : TRUE)

-----------------------------------------------------------------------------
(* AssetsCRUD.create_asset and AssetsCRUD.update_asset.  owner_ids is a     *)
(* Python list: a sequence, possibly empty, possibly with repeats.  The     *)
(* asset's name is not modelled.                                            *)

\* the members of a list
Range(seq) == { seq[i] : i \in 1..Len(seq) }

\* the three checks create_asset makes before it opens its transaction
CreateAssetInputError(value, independent_growth_rate, owner_ids) ==
    IF value < 0 THEN "Asset value cannot be negative"
    ELSE IF ~IsNone(independent_growth_rate)
            /\ RateOutOfRange(Val(independent_growth_rate))
      THEN "Growth rate must be between -200 and 200"
    ELSE IF owner_ids = << >> THEN "At least one owner must be specified"
    ELSE ""

\* SELECT household_id FROM plans WHERE plan_id = ?
PlanHousehold(plan_id) == { p.household_id : p \in { x \in plans : x.plan_id = plan_id } }

\* SELECT COUNT(*) FROM people WHERE person_id IN (...) AND household_id = ?
\* followed by "if count != len(owner_ids)"
OwnersNotInHousehold(owner_ids, household_id) ==
    Cardinality({ p \in people : /\ p.person_id \in Range(owner_ids)
                                 /\ p.household_id = household_id })
        # Len(owner_ids)

\* foreign key assets.asset_category_id -> asset_categories
AssetCategoryForeignKeyViolated(asset_category_id) ==
    ~ \E c \in asset_categories : c.asset_category_id = asset_category_id

\* INSERT INTO assets (plan_id, asset_category_id, asset_name, value,
\* include_in_nest_egg, independent_growth_rate) VALUES (...)
AssetInsert(asset_id, plan_id, asset_category_id, value, include_in_nest_egg, independent_growth_rate) ==
    [asset_id |-> asset_id, plan_id |-> plan_id,
     asset_category_id |-> asset_category_id, value |-> value,
     include_in_nest_egg |-> SqlBool(include_in_nest_egg),
     independent_growth_rate |-> independent_growth_rate]

\* "for owner_id in owner_ids: INSERT INTO asset_owners (asset_id, person_id)"
AssetOwnersInsert(asset_id, owner_ids) ==
    { [asset_id |-> asset_id, person_id |-> p] : p \in Range(owner_ids) }

create_asset(plan_id, asset_category_id, value, owner_ids, include_in_nest_egg, independent_growth_rate) ==
    LET op == "create_asset"
        args == [plan_id |-> plan_id, asset_category_id |-> asset_category_id,
                 value |-> value, owner_ids |-> owner_ids,
                 include_in_nest_egg |-> include_in_nest_egg,
                 independent_growth_rate |-> independent_growth_rate]
        input_error == CreateAssetInputError(value, independent_growth_rate, owner_ids)
        households == PlanHousehold(plan_id)
        asset_id == LastRowId({ a.asset_id : a \in assets })
        raise(msg) == /\ last' = Raised(op, args, msg)
                      /\ UNCHANGED <<assets, asset_owners>>
    IN  /\ IF input_error # "" THEN raise(input_error)
           ELSE IF households = {} THEN raise("Invalid plan_id")
           ELSE IF \E h \in households : OwnersNotInHousehold(owner_ids, h)
             THEN raise("All owners must belong to the household")
           ELSE IF AssetCategoryForeignKeyViolated(asset_category_id)
             THEN raise("FOREIGN KEY constraint failed")
           ELSE /\ assets' = assets \cup
                     { AssetInsert(asset_id, plan_id, asset_category_id, value,
                                   include_in_nest_egg,
                                   independent_growth_rate) }
                /\ asset_owners' = asset_owners \cup
                     AssetOwnersInsert(asset_id, owner_ids)
                /\ last' = Returned(op, args, asset_id)
        /\ UNCHANGED <<people, plans, base_assumptions, asset_categories,
                       asset_growth_adjustments, liability_categories,
                       liabilities, inflows_outflows, retirement_income_plans,
                       retirement_income_owners,
                       interleaving, scenarios, scenario_assumptions,
                       scenario_growth_adjustments, scenario_person_overrides,
                       scenario_assets, scenario_liabilities,
                       scenario_inflows_outflows, scenario_retirement_income>>

\* the checks update_asset makes on the new values
UpdateAssetInputError(value, independent_growth_rate) ==
    IF ~IsNone(value) /\ Val(value) < 0 THEN "Asset value cannot be negative"
    ELSE IF ~IsNone(independent_growth_rate)
            /\ RateOutOfRange(Val(independent_growth_rate))
      THEN "Growth rate must be between -200 and 200"
    ELSE ""

\* UPDATE assets SET ... WHERE asset_id = ?, with one assignment per
\* argument that is not None (not run when there is none)
AssetUpdate(row, value, include_in_nest_egg, independent_growth_rate) ==
    [row EXCEPT
       !.value = IF IsNone(value) THEN @ ELSE Val(value),
       !.include_in_nest_egg =
            IF IsNone(include_in_nest_egg) THEN @
            ELSE SqlBool(Val(include_in_nest_egg)),
       !.independent_growth_rate =
            IF IsNone(independent_growth_rate) THEN @
            ELSE independent_growth_rate]

\* SELECT p.household_id FROM assets a JOIN plans p ON a.plan_id = p.plan_id
\* WHERE a.asset_id = ?
AssetHousehold(asset_id) ==
    { p.household_id : p \in { x \in plans :
          \E a \in assets : a.asset_id = asset_id /\ a.plan_id = x.plan_id } }

\* DELETE FROM asset_owners WHERE asset_id = ?
AssetOwnersDelete(table, asset_id) == { ao \in table : ao.asset_id # asset_id }

update_asset(asset_id, value, include_in_nest_egg, independent_growth_rate, owner_ids) ==
    LET op == "update_asset"
        args == [asset_id |-> asset_id, value |-> value,
                 include_in_nest_egg |-> include_in_nest_egg,
                 independent_growth_rate |-> independent_growth_rate,
                 owner_ids |-> owner_ids]
        current_asset == get_asset(asset_id)
        input_error == UpdateAssetInputError(value, independent_growth_rate)
        written == { IF a.asset_id = asset_id
                       THEN AssetUpdate(a, value, include_in_nest_egg,
                                        independent_growth_rate)
                       ELSE a : a \in assets }
        raise(msg) == /\ last' = Raised(op, args, msg)
                      /\ assets' = Rollback(assets, written)
                      /\ asset_owners' = Rollback(asset_owners, asset_owners)
    IN  /\ IF IsNone(current_asset)
             THEN /\ last' = Returned(op, args, FALSE)
                  /\ UNCHANGED <<assets, asset_owners>>
           ELSE IF input_error # ""
             THEN /\ last' = Raised(op, args, input_error)
                  /\ UNCHANGED <<assets, asset_owners>>
           ELSE IF IsNone(owner_ids)
             THEN /\ assets' = written
                  /\ UNCHANGED asset_owners
                  /\ last' = Returned(op, args, TRUE)
           ELSE IF Val(owner_ids) = << >>
             THEN raise("At least one owner must be specified")
           ELSE IF \E h \in AssetHousehold(asset_id) :
                      OwnersNotInHousehold(Val(owner_ids), h)
             THEN raise("All owners must belong to the household")
           ELSE /\ assets' = written
                /\ asset_owners' = AssetOwnersDelete(asset_owners, asset_id)
                     \cup AssetOwnersInsert(asset_id, Val(owner_ids))
                /\ last' = Returned(op, args, TRUE)
        /\ UNCHANGED <<people, plans, base_assumptions, asset_categories,
                       asset_growth_adjustments, liability_categories,
                       liabilities, inflows_outflows, retirement_income_plans,
                       retirement_income_owners,
                       interleaving, scenarios, scenario_assumptions,
                       scenario_growth_adjustments, scenario_person_overrides,
                       scenario_assets, scenario_liabilities,
                       scenario_inflows_outflows, scenario_retirement_income>>

-----------------------------------------------------------------------------
(* PeopleCRUD.delete_person: BaseCRUD.delete on table people.               *)

\* foreign key plans.reference_person_id -> people.person_id, which has no
\* cascade: a reference person cannot be deleted
PersonForeignKeyViolated(person_id) ==
    \E p \in plans : p.reference_person_id = person_id

\* rows of a table that the foreign key on person_id removes with the
\* person (ON DELETE CASCADE): asset ownership and person overrides
PersonCascade(table, person_id) == { r \in table : r.person_id # person_id }

\* DELETE FROM people WHERE person_id = ?
DeleteFromPeople(person_id) == { p \in people : p.person_id # person_id }

delete_person(person_id) ==
    LET op == "delete_person"
        args == [person_id |-> person_id]
        rowcount == Cardinality({ p \in people : p.person_id = person_id })
    IN  /\ IF PersonForeignKeyViolated(person_id)
             THEN /\ last' = Raised(op, args, "FOREIGN KEY constraint failed")
                  /\ UNCHANGED <<people, asset_owners, retirement_income_owners,
                                 scenario_person_overrides>>
           ELSE /\ people' = DeleteFromPeople(person_id)
                /\ asset_owners' = PersonCascade(asset_owners, person_id)
                /\ retirement_income_owners' =
                       PersonCascade(retirement_income_owners, person_id)
                /\ scenario_person_overrides' =
                       PersonCascade(scenario_person_overrides, person_id)
                /\ last' = Returned(op, args, rowcount > 0)
        /\ UNCHANGED <<plans, base_assumptions, asset_categories, assets,
                       asset_growth_adjustments, liability_categories,
                       liabilities, inflows_outflows, retirement_income_plans,
                       interleaving, scenarios, scenario_assumptions,
                       scenario_growth_adjustments, scenario_assets,
                       scenario_liabilities, scenario_inflows_outflows,
                       scenario_retirement_income>>

-----------------------------------------------------------------------------
(* AssetsCRUD.delete_asset_category, LiabilitiesCRUD.delete_liability_category *)

\* foreign key assets.asset_category_id -> asset_categories, which restricts
\* the delete while an asset uses the category
AssetCategoryInUse(category_id) ==
    \E a \in assets : a.asset_category_id = category_id

\* (mutant) a DELETE that matches no row
DeleteFromAssetCategoriesNoRow(category_id) == asset_categories

\* DELETE FROM asset_categories WHERE asset_category_id = ?
DeleteFromAssetCategories(category_id) ==
    { c \in asset_categories : c.asset_category_id # category_id }

delete_asset_category(category_id) ==
    LET op == "delete_asset_category"
        args == [category_id |-> category_id]
        rowcount == Cardinality({ c \in asset_categories :
                                    c.asset_category_id = category_id })
    IN  /\ IF AssetCategoryInUse(category_id)
             THEN /\ last' = Raised(op, args, "FOREIGN KEY constraint failed")
                  /\ UNCHANGED asset_categories
           ELSE /\ asset_categories' = DeleteFromAssetCategories(category_id)
                /\ last' = Returned(op, args, rowcount > 0)
        /\ UNCHANGED <<people, plans, base_assumptions, assets, asset_owners,
                       asset_growth_adjustments, liability_categories,
                       liabilities, inflows_outflows, retirement_income_plans,
                       retirement_income_owners,
                       interleaving, scenarios, scenario_assumptions,
                       scenario_growth_adjustments, scenario_person_overrides,
                       scenario_assets, scenario_liabilities,
                       scenario_inflows_outflows, scenario_retirement_income>>

\* foreign key liabilities.liability_category_id -> liability_categories,
\* which restricts the delete while a liability uses the category
LiabilityCategoryInUse(category_id) ==
    \E l \in liabilities : l.liability_category_id = category_id

\* DELETE FROM liability_categories WHERE liability_category_id = ?
DeleteFromLiabilityCategories(category_id) ==
    { c \in liability_categories : c.liability_category_id # category_id }

delete_liability_category(category_id) ==
    LET op == "delete_liability_category"
        args == [category_id |-> category_id]
        rowcount == Cardinality({ c \in liability_categories :
                                    c.liability_category_id = category_id })
    IN  /\ IF LiabilityCategoryInUse(category_id)
             THEN /\ last' = Raised(op, args, "FOREIGN KEY constraint failed")
                  /\ UNCHANGED liability_categories
           ELSE /\ liability_categories' =
                       DeleteFromLiabilityCategories(category_id)
                /\ last' = Returned(op, args, rowcount > 0)
        /\ UNCHANGED <<people, plans, base_assumptions, asset_categories,
                       assets, asset_owners, asset_growth_adjustments,
                       liabilities, inflows_outflows, retirement_income_plans,
                       retirement_income_owners,
                       interleaving, scenarios, scenario_assumptions,
                       scenario_growth_adjustments, scenario_person_overrides,
                       scenario_assets, scenario_liabilities,
                       scenario_inflows_outflows, scenario_retirement_income>>

-----------------------------------------------------------------------------
(* PlansCRUD.create_plan.  base_assumptions is NULL for None or an empty    *)
(* dict, else <<b>> with b.k the value under key k and NULL when the key is *)
(* absent.  The plan's name is not modelled.                                *)

\* datetime.now().year
CurrentYear == 2

\* (mutant) the reference person looked up by id alone
ReferencePersonExists(reference_person_id, household_id) ==
    \E p \in people : p.person_id = reference_person_id

\* SELECT 1 FROM people WHERE person_id = ? AND household_id = ?
ReferencePersonInHousehold(reference_person_id, household_id) ==
    \E p \in people : /\ p.person_id = reference_person_id
                      /\ p.household_id = household_id

\* INSERT INTO plans (household_id, plan_name, reference_person_id,
\* plan_creation_year) VALUES (?, ?, ?, ?)
PlanInsert(plan_id, household_id, reference_person_id, plan_creation_year) ==
    [plan_id |-> plan_id, household_id |-> household_id,
     reference_person_id |-> reference_person_id,
     plan_creation_year |-> IF IsNone(plan_creation_year) THEN CurrentYear
                            ELSE Val(plan_creation_year)]

\* '"inflation_rate" not in assumptions', with assumptions = base_assumptions or {}
InflationRateMissing(base) ==
    IsNone(base) \/ IsNone(Val(base).inflation_rate)

\* assumptions.get(key, default)
GetOr(x, default) == IF IsNone(x) THEN default ELSE Val(x)

\* INSERT INTO base_assumptions (plan_id, nest_egg_growth_rate,
\* inflation_rate, annual_retirement_spending) VALUES (?, ?, ?, ?)
BaseAssumptionsInsert(plan_id, base) ==
    [plan_id |-> plan_id,
     nest_egg_growth_rate |-> GetOr(Val(base).nest_egg_growth_rate, 6),
     inflation_rate |-> Val(Val(base).inflation_rate),
     annual_retirement_spending |->
         GetOr(Val(base).annual_retirement_spending, 0)]

create_plan(household_id, reference_person_id, plan_creation_year, base) ==
    LET op == "create_plan"
        args == [household_id |-> household_id,
                 reference_person_id |-> reference_person_id,
                 plan_creation_year |-> plan_creation_year,
                 base_assumptions |-> base]
        plan_id == LastRowId({ p.plan_id : p \in plans })
        written == plans \cup
                     { PlanInsert(plan_id, household_id, reference_person_id,
                                  plan_creation_year) }
    IN  /\ IF ~ReferencePersonInHousehold(reference_person_id, household_id)
             THEN /\ last' = Raised(op, args,
                               "Reference person must belong to the household")
                  /\ UNCHANGED <<plans, base_assumptions>>
           ELSE IF InflationRateMissing(base)
             THEN /\ last' = Raised(op, args,
                               "inflation_rate is required in base assumptions")
                  /\ plans' = Rollback(plans, written)
                  /\ UNCHANGED base_assumptions
           ELSE /\ plans' = written
                /\ base_assumptions' = base_assumptions \cup
                     { BaseAssumptionsInsert(plan_id, base) }
                /\ last' = Returned(op, args, plan_id)
        /\ UNCHANGED <<people, asset_categories, assets, asset_owners,
                       asset_growth_adjustments, liability_categories,
                       liabilities, inflows_outflows, retirement_income_plans,
                       retirement_income_owners,
                       interleaving, scenarios, scenario_assumptions,
                       scenario_growth_adjustments, scenario_person_overrides,
                       scenario_assets, scenario_liabilities,
                       scenario_inflows_outflows, scenario_retirement_income>>

-----------------------------------------------------------------------------
(* Inputs of the calls and the specifications.                              *)

OptBools == {NULL, Some(FALSE)}

Bools == {FALSE, TRUE}

(* The asset ledger alone: any number of override_asset calls on scenario 1 *)
(* (plan 1) over the assets of both plans.                                  *)

AssetScenarioIds == {1}

AssetIds == {1, 2, 3}

AssetValues == {NULL, Some(150)}

AssetRates == {NULL, Some(8)}

OverrideAssetCall ==
    /\ \E s \in AssetScenarioIds, a \in AssetIds, v \in AssetValues,
          g \in AssetRates, n \in OptBools, x \in Bools :
           override_asset(s, a, v, g, n, x)
    /\ UNCHANGED ncalls

NextAssets == OverrideAssetCall

SpecAssets == Init /\ [][NextAssets]_vars

(* The four override ledgers together: up to MaxCalls calls on scenario 1,  *)
(* each on an entity of the scenario's plan or of the other plan, with      *)
(* values the Fact Store accepts and values it rejects.                     *)

MaxCalls == 3

LedgerScenarioIds == {1}

LedgerAssetIds == {1, 3}

LedgerAssetValues == {NULL, Some(0 - 1), Some(150)}

LedgerAssetRates == {NULL, Some(250), Some(8)}

LedgerLiabilityIds == {1, 2}

LedgerLiabilityValues == {NULL, Some(0 - 1), Some(200)}

LedgerLiabilityRates == {NULL, Some(250), Some(5)}

LedgerInflowOutflowIds == {1, 2}

LedgerStartYears == {NULL, Some(1), Some(4)}

LedgerEndYears == {NULL, Some(5)}

LedgerIncomePlanIds == {1, 3}

LedgerAnnualIncomes == {NULL, Some(0 - 1), Some(55)}

LedgerStartAges == {NULL, Some(0)}

\* one more call, while the budget lasts
CountCall == ncalls < MaxCalls /\ ncalls' = ncalls + 1

LedgerAssetCall ==
    /\ CountCall
    /\ \E s \in LedgerScenarioIds, a \in LedgerAssetIds,
          v \in LedgerAssetValues, g \in LedgerAssetRates, x \in Bools :
           override_asset(s, a, v, g, NULL, x)

LedgerLiabilityCall ==
    /\ CountCall
    /\ \E s \in LedgerScenarioIds, l \in LedgerLiabilityIds,
          v \in LedgerLiabilityValues, r \in LedgerLiabilityRates,
          x \in Bools :
           override_liability(s, l, v, r, NULL, x)

LedgerInflowOutflowCall ==
    /\ CountCall
    /\ \E s \in LedgerScenarioIds, io \in LedgerInflowOutflowIds,
          sy \in LedgerStartYears, ey \in LedgerEndYears, x \in Bools :
           override_inflow_outflow(s, io, NULL, sy, ey, NULL, x)

LedgerRetirementIncomeCall ==
    /\ CountCall
    /\ \E s \in LedgerScenarioIds, i \in LedgerIncomePlanIds,
          ai \in LedgerAnnualIncomes, sa \in LedgerStartAges, x \in Bools :
           override_retirement_income(s, i, ai, sa, NULL, NULL, NULL, x)

Next ==
    \/ LedgerAssetCall
    \/ LedgerLiabilityCall
    \/ LedgerInflowOutflowCall
    \/ LedgerRetirementIncomeCall

Spec == Init /\ [][Next]_vars

(* The windows of cash flow 1 (years 3..6) and of income plans 1 (ages      *)
(* 3..5) and 2 (from age 3, no end), overridden one boundary or both at a   *)
(* time, any number of times.                                               *)

WindowStartYears == {NULL, Some(4), Some(5), Some(7)}

WindowEndYears == {NULL, Some(4), Some(6)}

WindowIncomePlanIds == {1, 2}

WindowStartAges == {NULL, Some(4), Some(6)}

WindowEndAges == {NULL, Some(4)}

WindowInflowOutflowCall ==
    /\ \E sy \in WindowStartYears, ey \in WindowEndYears :
           override_inflow_outflow(1, 1, NULL, sy, ey, NULL, FALSE)
    /\ UNCHANGED ncalls

WindowRetirementIncomeCall ==
    /\ \E i \in WindowIncomePlanIds, sa \in WindowStartAges,
          ea \in WindowEndAges :
           override_retirement_income(1, i, NULL, sa, ea, NULL, NULL, FALSE)
    /\ UNCHANGED ncalls

NextWindows ==
    \/ WindowInflowOutflowCall
    \/ WindowRetirementIncomeCall

SpecWindows == Init /\ [][NextWindows]_vars

(* Person overrides in scenario 1 (household 1): persons 1 and 2 of the     *)
(* household, person 3 of the other household, and an id nobody has.        *)

PersonIds == {1, 2, 3, 9}

PersonRetirementAges == {NULL, Some(0), Some(2), Some(4), Some(6)}

PersonFinalAges == {NULL, Some(4), Some(6)}

UpdatePersonOverridesCall ==
    /\ \E p \in PersonIds, r \in PersonRetirementAges, f \in PersonFinalAges :
           update_person_overrides(1, p, r, f)
    /\ UNCHANGED ncalls

NextPerson == UpdatePersonOverridesCall

SpecPerson == Init /\ [][NextPerson]_vars

(* Scenario assumptions: update_scenario on scenario 1 and on an id no      *)
(* scenario has, with or without a name, with every subset of the three     *)
(* keys; scenario 2 keeps no assumption row.                                *)

UpdateScenarioIds == {1, 3}

ScenarioNames == {NULL, Some("b")}

GrowthRates == {NULL, Some(250), Some(5)}

InflationRates == {NULL, Some(4), Some(5)}

Spendings == {NULL, Some(0 - 1), Some(60)}

AssumptionOverrides ==
    {NULL} \cup
    { Some([nest_egg_growth_rate |-> g, inflation_rate |-> i,
            annual_retirement_spending |-> sp]) :
        g \in GrowthRates, i \in InflationRates, sp \in Spendings }

UpdateScenarioCall ==
    /\ \E s \in UpdateScenarioIds, n \in ScenarioNames,
          o \in AssumptionOverrides :
           update_scenario(s, n, o)
    /\ UNCHANGED ncalls

NextAssumptions == UpdateScenarioCall

SpecAssumptions == Init /\ [][NextAssumptions]_vars

-----------------------------------------------------------------------------
(* Properties of the asset override ledger, checked under SpecAssets.       *)

AssetOverrideRows(scenario_id, asset_id) ==
    { r \in scenario_assets :
        r.scenario_id = scenario_id /\ r.original_asset_id = asset_id }

\* C1: for every scenario s and every asset a of s's plan that s does not
\* exclude, get_scenario_effective_assets(s) holds exactly one entry for a;
\* its value and independent_growth_rate are the override's where the
\* override row has the field's overridden-flag set, the base asset's
\* otherwise (an unset base growth rate stays unset).
C1_EffectiveAssetMerge ==
    \A s \in scenarios, a \in assets :
      LET ovr == AssetOverrideRows(s.scenario_id, a.asset_id)
          entries == { e \in get_scenario_effective_assets(s.scenario_id) :
                         e.asset_id = a.asset_id }
      IN  (a.plan_id = s.plan_id
             /\ \A r \in ovr : r.exclude_from_projection = 0)
          => /\ Cardinality(entries) = 1
             /\ \A e \in entries :
                  /\ \A r \in ovr : r.overrides_value = 1 => e.value = r.value
                  /\ (\A r \in ovr : r.overrides_value = 0)
                        => e.value = Some(a.value)
                  /\ \A r \in ovr : r.overrides_independent_growth_rate = 1
                        => e.independent_growth_rate = r.independent_growth_rate
                  /\ (\A r \in ovr : r.overrides_independent_growth_rate = 0)
                        => e.independent_growth_rate = a.independent_growth_rate

\* C1 witness: asset 1 (value 100, growth rate unset) overridden in scenario 1
\* with value 150 only resolves to value 150 and an unset growth rate.
C1_Witness ==
    /\ Succeeded("override_asset")
    /\ \E r \in AssetOverrideRows(1, 1) :
          /\ r.overrides_value = 1
          /\ r.overrides_independent_growth_rate = 0
          /\ r.exclude_from_projection = 0
    /\ \E e \in get_scenario_effective_assets(1) :
          /\ e.asset_id = 1
          /\ e.value = Some(150)
          /\ e.independent_growth_rate = NULL

\* C2: a successful override_asset(s, a, exclude_from_projection=True) leaves
\* a out of get_scenario_effective_assets(s) whatever field overrides the row
\* carries, leaves get_asset(a) as it was, and the override row is still
\* there with the values stored in it (those of this call where supplied,
\* the earlier ones otherwise).
C2_Step ==
    \A s \in {x.scenario_id : x \in scenarios}, a \in {x.asset_id : x \in assets} :
      (Succeeded("override_asset")'
         /\ last'.args.scenario_id = s /\ last'.args.asset_id = a
         /\ last'.args.exclude_from_projection)
      => /\ \A e \in get_scenario_effective_assets(s)' : e.asset_id # a
         /\ get_asset(a)' = get_asset(a)
         /\ assets' = assets
         /\ \E r \in AssetOverrideRows(s, a)' :
              /\ r.scenario_asset_id = Val(last'.result)
              /\ r.exclude_from_projection = 1
              /\ ~IsNone(last'.args.value)
                   => (r.overrides_value = 1 /\ r.value = last'.args.value)
              /\ ~IsNone(last'.args.independent_growth_rate)
                   => (r.overrides_independent_growth_rate = 1
                       /\ r.independent_growth_rate
                            = last'.args.independent_growth_rate)
              /\ \A old \in AssetOverrideRows(s, a) :
                   /\ IsNone(last'.args.value)
                        => (r.overrides_value = old.overrides_value
                            /\ r.value = old.value)
                   /\ IsNone(last'.args.independent_growth_rate)
                        => (r.overrides_independent_growth_rate
                               = old.overrides_independent_growth_rate
                            /\ r.independent_growth_rate
                               = old.independent_growth_rate)

C2_ExclusionPrecedence == [][C2_Step]_vars

\* C2 witness: an asset whose override row carries a value override has just
\* been excluded and is gone from the scenario's effective assets.
C2_Witness ==
    /\ Succeeded("override_asset")
    /\ last.args.exclude_from_projection
    /\ IsNone(last.args.value)
    /\ \E r \in AssetOverrideRows(last.args.scenario_id, last.args.asset_id) :
          r.overrides_value = 1 /\ r.value = Some(150)
                                /\ r.exclude_from_projection = 1
    /\ \A e \in get_scenario_effective_assets(last.args.scenario_id) :
          e.asset_id # last.args.asset_id

\* C3: after any sequence of successful override_asset calls there is exactly
\* one override row per overridden (scenario, asset) pair, a call returns the
\* id of its pair's row and that id never changes, and
\* get_scenario(s).num_asset_overrides is the number of distinct assets
\* overridden in s (unchanged by a call on an asset already overridden).
C3_State ==
    /\ \A r1, r2 \in scenario_assets :
          (r1.scenario_id = r2.scenario_id
             /\ r1.original_asset_id = r2.original_asset_id) => r1 = r2
    /\ \A s \in scenarios :
          Val(get_scenario(s.scenario_id)).num_asset_overrides =
             Cardinality({ r.original_asset_id :
                 r \in { x \in scenario_assets :
                           x.scenario_id = s.scenario_id } })
    /\ Succeeded("override_asset") =>
          \E r \in AssetOverrideRows(last.args.scenario_id, last.args.asset_id) :
              r.scenario_asset_id = Val(last.result)

C3_Step ==
    /\ \A r \in scenario_assets :
          \E r2 \in AssetOverrideRows(r.scenario_id, r.original_asset_id)' :
              r2.scenario_asset_id = r.scenario_asset_id
    /\ \A s \in {x.scenario_id : x \in scenarios},
          a \in {x.asset_id : x \in assets} :
          (Succeeded("override_asset")'
             /\ last'.args.scenario_id = s /\ last'.args.asset_id = a
             /\ AssetOverrideRows(s, a) # {})
          => Val(get_scenario(s)').num_asset_overrides
                = Val(get_scenario(s)).num_asset_overrides

C3_UpsertOneRowPerPair == [](C3_State) /\ [][C3_Step]_vars

\* C3 witness: two assets are overridden in scenario 1, the count is 2, and
\* the call just made updated an existing row (it returned the older id 1).
C3_Witness ==
    /\ Succeeded("override_asset")
    /\ last.args.scenario_id = 1
    /\ last.result = Some(1)
    /\ Cardinality(scenario_assets) = 2
    /\ Val(get_scenario(1)).num_asset_overrides = 2
    /\ \E r \in scenario_assets :
          r.scenario_asset_id = 1 /\ r.overrides_value = 1
                                  /\ r.overrides_independent_growth_rate = 1

-----------------------------------------------------------------------------
(* Properties of the four override ledgers together, checked under Spec.    *)

LiabilityOverrideRows(scenario_id, liability_id) ==
    { r \in scenario_liabilities :
        r.scenario_id = scenario_id /\ r.original_liability_id = liability_id }

InflowOutflowOverrideRows(scenario_id, inflow_outflow_id) ==
    { r \in scenario_inflows_outflows :
        /\ r.scenario_id = scenario_id
        /\ r.original_inflow_outflow_id = inflow_outflow_id }

RetirementIncomeOverrideRows(scenario_id, income_plan_id) ==
    { r \in scenario_retirement_income :
        /\ r.scenario_id = scenario_id
        /\ r.original_income_plan_id = income_plan_id }

ScenarioIdsNow == { s.scenario_id : s \in scenarios }

\* a field after a call: flagged and set to the supplied value, or as before
FieldWritten(supplied, new_flag, new_value, old_flag, old_value) ==
    IF ~IsNone(supplied)
      THEN new_flag = 1 /\ new_value = supplied
      ELSE new_flag = old_flag /\ new_value = old_value

\* a 0/1 column after a call: the supplied boolean, or as before
BoolWritten(supplied, new_value, old_value) ==
    IF ~IsNone(supplied)
      THEN new_value = SqlBool(Val(supplied))
      ELSE new_value = old_value

C4_AssetStep ==
    \A s \in ScenarioIdsNow, a \in { x.asset_id : x \in assets } :
      (Succeeded("override_asset")'
         /\ last'.args.scenario_id = s /\ last'.args.asset_id = a
         /\ AssetOverrideRows(s, a) # {})
      => /\ Cardinality(AssetOverrideRows(s, a)') = 1
         /\ scenario_assets' \ AssetOverrideRows(s, a)'
               = scenario_assets \ AssetOverrideRows(s, a)
         /\ \A old \in AssetOverrideRows(s, a) :
              \E new \in AssetOverrideRows(s, a)' :
                /\ new.scenario_asset_id = old.scenario_asset_id
                /\ FieldWritten(last'.args.value,
                                new.overrides_value, new.value,
                                old.overrides_value, old.value)
                /\ FieldWritten(last'.args.independent_growth_rate,
                                new.overrides_independent_growth_rate,
                                new.independent_growth_rate,
                                old.overrides_independent_growth_rate,
                                old.independent_growth_rate)
                /\ BoolWritten(last'.args.include_in_nest_egg,
                               new.include_in_nest_egg, old.include_in_nest_egg)
                /\ new.exclude_from_projection
                     = SqlBool(last'.args.exclude_from_projection)

C4_LiabilityStep ==
    \A s \in ScenarioIdsNow, l \in { x.liability_id : x \in liabilities } :
      (Succeeded("override_liability")'
         /\ last'.args.scenario_id = s /\ last'.args.liability_id = l
         /\ LiabilityOverrideRows(s, l) # {})
      => /\ Cardinality(LiabilityOverrideRows(s, l)') = 1
         /\ scenario_liabilities' \ LiabilityOverrideRows(s, l)'
               = scenario_liabilities \ LiabilityOverrideRows(s, l)
         /\ \A old \in LiabilityOverrideRows(s, l) :
              \E new \in LiabilityOverrideRows(s, l)' :
                /\ new.scenario_item_id = old.scenario_item_id
                /\ FieldWritten(last'.args.value,
                                new.overrides_value, new.value,
                                old.overrides_value, old.value)
                /\ FieldWritten(last'.args.interest_rate,
                                new.overrides_interest_rate, new.interest_rate,
                                old.overrides_interest_rate, old.interest_rate)
                /\ BoolWritten(last'.args.include_in_nest_egg,
                               new.include_in_nest_egg, old.include_in_nest_egg)
                /\ new.exclude_from_projection
                     = SqlBool(last'.args.exclude_from_projection)

C4_InflowOutflowStep ==
    \A s \in ScenarioIdsNow,
       io \in { x.inflow_outflow_id : x \in inflows_outflows } :
      (Succeeded("override_inflow_outflow")'
         /\ last'.args.scenario_id = s /\ last'.args.inflow_outflow_id = io
         /\ InflowOutflowOverrideRows(s, io) # {})
      => /\ Cardinality(InflowOutflowOverrideRows(s, io)') = 1
         /\ scenario_inflows_outflows' \ InflowOutflowOverrideRows(s, io)'
               = scenario_inflows_outflows \ InflowOutflowOverrideRows(s, io)
         /\ \A old \in InflowOutflowOverrideRows(s, io) :
              \E new \in InflowOutflowOverrideRows(s, io)' :
                /\ new.scenario_item_id = old.scenario_item_id
                /\ FieldWritten(last'.args.annual_amount,
                                new.overrides_annual_amount, new.annual_amount,
                                old.overrides_annual_amount, old.annual_amount)
                /\ FieldWritten(last'.args.start_year,
                                new.overrides_start_year, new.start_year,
                                old.overrides_start_year, old.start_year)
                /\ FieldWritten(last'.args.end_year,
                                new.overrides_end_year, new.end_year,
                                old.overrides_end_year, old.end_year)
                /\ BoolWritten(last'.args.apply_inflation,
                               new.apply_inflation, old.apply_inflation)
                /\ new.exclude_from_projection
                     = SqlBool(last'.args.exclude_from_projection)

C4_RetirementIncomeStep ==
    \A s \in ScenarioIdsNow,
       i \in { x.income_plan_id : x \in retirement_income_plans } :
      (Succeeded("override_retirement_income")'
         /\ last'.args.scenario_id = s /\ last'.args.income_plan_id = i
         /\ RetirementIncomeOverrideRows(s, i) # {})
      => /\ Cardinality(RetirementIncomeOverrideRows(s, i)') = 1
         /\ scenario_retirement_income' \ RetirementIncomeOverrideRows(s, i)'
               = scenario_retirement_income \ RetirementIncomeOverrideRows(s, i)
         /\ \A old \in RetirementIncomeOverrideRows(s, i) :
              \E new \in RetirementIncomeOverrideRows(s, i)' :
                /\ new.scenario_item_id = old.scenario_item_id
                /\ FieldWritten(last'.args.annual_income,
                                new.overrides_annual_income, new.annual_income,
                                old.overrides_annual_income, old.annual_income)
                /\ FieldWritten(last'.args.start_age,
                                new.overrides_start_age, new.start_age,
                                old.overrides_start_age, old.start_age)
                /\ FieldWritten(last'.args.end_age,
                                new.overrides_end_age, new.end_age,
                                old.overrides_end_age, old.end_age)
                /\ BoolWritten(last'.args.apply_inflation,
                               new.apply_inflation, old.apply_inflation)
                /\ BoolWritten(last'.args.include_in_nest_egg,
                               new.include_in_nest_egg, old.include_in_nest_egg)
                /\ new.exclude_from_projection
                     = SqlBool(last'.args.exclude_from_projection)

\* C4: when an override row already exists for (scenario, entity), a
\* successful override_asset, override_liability, override_inflow_outflow or
\* override_retirement_income call keeps that single row, sets the
\* overridden-flag and value of exactly the fields it supplies, sets
\* exclude_from_projection to the value passed (false when omitted), and
\* leaves every other field's flag and value, and every other row, as they
\* were.
C4_UpdateFrame ==
    [][/\ C4_AssetStep
       /\ C4_LiabilityStep
       /\ C4_InflowOutflowStep
       /\ C4_RetirementIncomeStep]_vars

\* C4 witness: cash flow 1's override row, whose start year an earlier call
\* set to 4, has just been given end year 5 by a call that supplied no start
\* year and omitted the exclusion; the start-year override is still there.
C4_Witness ==
    /\ Succeeded("override_inflow_outflow")
    /\ IsNone(last.args.start_year)
    /\ last.args.end_year = Some(5)
    /\ ~last.args.exclude_from_projection
    /\ \E r \in InflowOutflowOverrideRows(1, 1) :
          /\ r.scenario_item_id = Val(last.result)
          /\ r.overrides_start_year = 1 /\ r.start_year = Some(4)
          /\ r.overrides_end_year = 1 /\ r.end_year = Some(5)
          /\ r.exclude_from_projection = 0

AssetOfOtherPlan(scenario_id, asset_id) ==
    \E s \in scenarios, e \in assets :
        /\ s.scenario_id = scenario_id /\ e.asset_id = asset_id
        /\ e.plan_id # s.plan_id

LiabilityOfOtherPlan(scenario_id, liability_id) ==
    \E s \in scenarios, e \in liabilities :
        /\ s.scenario_id = scenario_id /\ e.liability_id = liability_id
        /\ e.plan_id # s.plan_id

InflowOutflowOfOtherPlan(scenario_id, inflow_outflow_id) ==
    \E s \in scenarios, e \in inflows_outflows :
        /\ s.scenario_id = scenario_id
        /\ e.inflow_outflow_id = inflow_outflow_id
        /\ e.plan_id # s.plan_id

RetirementIncomeOfOtherPlan(scenario_id, income_plan_id) ==
    \E s \in scenarios, e \in retirement_income_plans :
        /\ s.scenario_id = scenario_id /\ e.income_plan_id = income_plan_id
        /\ e.plan_id # s.plan_id

C6_State ==
    /\ \A r \in scenario_assets :
          ~AssetOfOtherPlan(r.scenario_id, r.original_asset_id)
    /\ \A r \in scenario_liabilities :
          ~LiabilityOfOtherPlan(r.scenario_id, r.original_liability_id)
    /\ \A r \in scenario_inflows_outflows :
          ~InflowOutflowOfOtherPlan(r.scenario_id, r.original_inflow_outflow_id)
    /\ \A r \in scenario_retirement_income :
          ~RetirementIncomeOfOtherPlan(r.scenario_id, r.original_income_plan_id)

C6_Rejected ==
    /\ last'.error # ""
    /\ UNCHANGED <<scenario_assets, scenario_liabilities,
                   scenario_inflows_outflows, scenario_retirement_income>>

C6_Step ==
    /\ (last'.op = "override_asset"
          /\ AssetOfOtherPlan(last'.args.scenario_id, last'.args.asset_id))
       => C6_Rejected
    /\ (last'.op = "override_liability"
          /\ LiabilityOfOtherPlan(last'.args.scenario_id,
                                  last'.args.liability_id))
       => C6_Rejected
    /\ (last'.op = "override_inflow_outflow"
          /\ InflowOutflowOfOtherPlan(last'.args.scenario_id,
                                      last'.args.inflow_outflow_id))
       => C6_Rejected
    /\ (last'.op = "override_retirement_income"
          /\ RetirementIncomeOfOtherPlan(last'.args.scenario_id,
                                         last'.args.income_plan_id))
       => C6_Rejected

\* C6: override_asset, override_liability, override_inflow_outflow and
\* override_retirement_income raise and create or change no override row
\* when the base entity's plan differs from the scenario's plan; hence in
\* every reachable state each override row's base entity belongs to the plan
\* of the row's scenario.
C6_CrossPlanRejected == [](C6_State) /\ [][C6_Step]_vars

\* C6 witness: with an override row already in the liability ledger, an
\* override of liability 2 (plan 2) in scenario 1 (plan 1) has just been
\* refused.
C6_Witness ==
    /\ Failed("override_liability")
    /\ last.args.scenario_id = 1 /\ last.args.liability_id = 2
    /\ last.error = "Liability must belong to the scenario's plan"
    /\ scenario_liabilities # {}

-----------------------------------------------------------------------------
(* The Fact Store's rules for the fields an override can carry.             *)

\* AssetsCRUD.create_asset: "if value < 0"
AssetValueInvalid(value) == value < 0

\* AssetsCRUD.create_asset: the independent_growth_rate range check
AssetGrowthRateInvalid(rate) == RateOutOfRange(rate)

\* LiabilitiesCRUD.create_liability: "if value < 0"
LiabilityValueInvalid(value) == value < 0

\* LiabilitiesCRUD.create_liability: the interest_rate range check
LiabilityInterestRateInvalid(rate) == RateOutOfRange(rate)

\* RetirementIncomeCRUD.create_retirement_income: "if annual_income < 0"
AnnualIncomeInvalid(annual_income) == annual_income < 0

\* RetirementIncomeCRUD.create_retirement_income: "if start_age <= 0"
StartAgeInvalid(start_age) == start_age <= 0

\* InflowsOutflowsCRUD.create_inflow_outflow:
\* "if start_year < plan_creation_year"
StartYearInvalid(start_year, plan_creation_year) ==
    start_year < plan_creation_year

\* SELECT plan_creation_year FROM plans WHERE plan_id = ?, for the plan of a
\* scenario
ScenarioPlanCreationYear(scenario_id) ==
    LET s == CHOOSE x \in scenarios : x.scenario_id = scenario_id
        p == CHOOSE x \in plans : x.plan_id = s.plan_id
    IN  p.plan_creation_year

C7_Step ==
    /\ Succeeded("override_asset")' =>
         /\ ~IsNone(last'.args.value)
               => ~AssetValueInvalid(Val(last'.args.value))
         /\ ~IsNone(last'.args.independent_growth_rate)
               => ~AssetGrowthRateInvalid(
                        Val(last'.args.independent_growth_rate))
    /\ Succeeded("override_liability")' =>
         /\ ~IsNone(last'.args.value)
               => ~LiabilityValueInvalid(Val(last'.args.value))
         /\ ~IsNone(last'.args.interest_rate)
               => ~LiabilityInterestRateInvalid(Val(last'.args.interest_rate))
    /\ Succeeded("override_retirement_income")' =>
         /\ ~IsNone(last'.args.annual_income)
               => ~AnnualIncomeInvalid(Val(last'.args.annual_income))
         /\ ~IsNone(last'.args.start_age)
               => ~StartAgeInvalid(Val(last'.args.start_age))
    /\ Succeeded("override_inflow_outflow")' =>
         (~IsNone(last'.args.start_year)
            => ~StartYearInvalid(Val(last'.args.start_year),
                   ScenarioPlanCreationYear(last'.args.scenario_id)))
    /\ last'.error # ""
         => UNCHANGED <<scenario_assets, scenario_liabilities,
                        scenario_inflows_outflows, scenario_retirement_income>>

\* C7: for every override kind, a call that supplies a value the Fact Store
\* rejects for that field (asset or liability value < 0, growth or interest
\* rate outside [-200, 200], annual_income < 0, start_age <= 0, cash-flow
\* start_year before the plan's creation year) is rejected: a call that
\* succeeds supplied none, and a call that is rejected writes nothing.
C7_OverrideValidation == [][C7_Step]_vars

-----------------------------------------------------------------------------
(* Merged windows, checked under SpecWindows.                               *)

\* C5: after any sequence of successful override_inflow_outflow calls the
\* merged window of every overridden cash flow (override value where the
\* flag is set, base value otherwise) has start_year <= end_year, and after
\* any sequence of successful override_retirement_income calls the merged
\* start_age <= merged end_age whenever the merged end_age is set.
C5_MergedWindowOrdered ==
    /\ \A r \in scenario_inflows_outflows, io \in inflows_outflows :
          io.inflow_outflow_id = r.original_inflow_outflow_id =>
            LET start_year == IF r.overrides_start_year = 1
                                THEN Val(r.start_year) ELSE io.start_year
                end_year == IF r.overrides_end_year = 1
                              THEN Val(r.end_year) ELSE io.end_year
            IN  start_year <= end_year
    /\ \A r \in scenario_retirement_income, rip \in retirement_income_plans :
          rip.income_plan_id = r.original_income_plan_id =>
            LET start_age == IF r.overrides_start_age = 1
                               THEN Val(r.start_age) ELSE rip.start_age
                end_age == IF r.overrides_end_age = 1
                             THEN r.end_age ELSE rip.end_age
            IN  (~IsNone(end_age) => start_age <= Val(end_age))

-----------------------------------------------------------------------------
(* Person overrides, checked under SpecPerson.                              *)

PersonOverrideRows(scenario_id, person_id) ==
    { r \in scenario_person_overrides :
        r.scenario_id = scenario_id /\ r.person_id = person_id }

\* the person is in the household of the scenario's plan
PersonInScenarioHousehold(scenario_id, person_id) ==
    \E p \in people, s \in scenarios, pl \in plans :
        /\ p.person_id = person_id /\ s.scenario_id = scenario_id
        /\ pl.plan_id = s.plan_id /\ pl.household_id = p.household_id

C8_Step ==
    /\ Failed("update_person_overrides")' => UNCHANGED scenario_person_overrides
    /\ \A s \in ScenarioIdsNow :
         (last'.op = "update_person_overrides" /\ last'.args.scenario_id = s
            /\ ~PersonInScenarioHousehold(s, last'.args.person_id))
         => Failed("update_person_overrides")'
    /\ \A s \in ScenarioIdsNow, p \in people :
         (Succeeded("update_person_overrides")'
            /\ last'.args.scenario_id = s
            /\ last'.args.person_id = p.person_id)
         => LET retirement_age ==
                    IF ~IsNone(last'.args.retirement_age)
                      THEN Val(last'.args.retirement_age)
                      ELSE p.retirement_age
                final_age ==
                    IF ~IsNone(last'.args.final_age)
                      THEN Val(last'.args.final_age)
                      ELSE p.final_age
                old_rows == PersonOverrideRows(s, p.person_id)
                new_rows == PersonOverrideRows(s, p.person_id)'
            IN  /\ retirement_age > 0
                /\ final_age > retirement_age
                /\ Cardinality(new_rows) = 1
                /\ scenario_person_overrides' \ new_rows
                      = scenario_person_overrides \ old_rows
                /\ old_rows = {} =>
                     \A new \in new_rows :
                       /\ new.overrides_retirement_age
                             = Flag(last'.args.retirement_age)
                       /\ new.retirement_age = last'.args.retirement_age
                       /\ new.overrides_final_age = Flag(last'.args.final_age)
                       /\ new.final_age = last'.args.final_age
                /\ \A old \in old_rows :
                     \E new \in new_rows :
                       /\ FieldWritten(last'.args.retirement_age,
                                       new.overrides_retirement_age,
                                       new.retirement_age,
                                       old.overrides_retirement_age,
                                       old.retirement_age)
                       /\ FieldWritten(last'.args.final_age,
                                       new.overrides_final_age, new.final_age,
                                       old.overrides_final_age, old.final_age)

\* C8: update_person_overrides raises and writes nothing when the person is
\* not in the household of the scenario's plan, or when, taking each age as
\* the supplied value if given and the person's base value otherwise,
\* retirement age <= 0 or final age <= retirement age; a call that succeeds
\* creates the (scenario, person) row if absent or updates that single row
\* in place, touching no other row.
C8_PersonOverrides == [][C8_Step]_vars

\* C8 witness: person 1's override row, whose retirement age an earlier call
\* set to 4, has just been given final age 6 by a call that supplied no
\* retirement age; the row is still the only one for the pair.
C8_Witness ==
    /\ Succeeded("update_person_overrides")
    /\ last.args.person_id = 1
    /\ IsNone(last.args.retirement_age)
    /\ last.args.final_age = Some(6)
    /\ Cardinality(PersonOverrideRows(1, 1)) = 1
    /\ \E r \in PersonOverrideRows(1, 1) :
          /\ r.overrides_retirement_age = 1 /\ r.retirement_age = Some(4)
          /\ r.overrides_final_age = 1 /\ r.final_age = Some(6)

-----------------------------------------------------------------------------
(* Scenario assumptions, checked under SpecAssumptions.                     *)

AssumptionRows(scenario_id) ==
    { r \in scenario_assumptions : r.scenario_id = scenario_id }

\* an effective assumption: the override where flagged, else the base value
Resolved(flag, override, base) == IF flag = 1 THEN override ELSE Some(base)

\* C9: for every scenario, get_scenario_effective_assumptions resolves
\* nest_egg_growth_rate, inflation_rate and annual_retirement_spending
\* independently: each is the scenario's override value when that field's
\* overridden-flag is set and the plan's base assumption otherwise, whatever
\* the other two flags are, and all three are the base values when the
\* scenario has no assumption row.
C9_EffectiveAssumptions ==
    \A s \in scenarios, b \in base_assumptions :
      b.plan_id = s.plan_id =>
        LET e == get_scenario_effective_assumptions(s.scenario_id)
            rows == AssumptionRows(s.scenario_id)
        IN  /\ ~IsNone(e)
            /\ rows = {} =>
                 /\ Val(e).nest_egg_growth_rate = Some(b.nest_egg_growth_rate)
                 /\ Val(e).inflation_rate = Some(b.inflation_rate)
                 /\ Val(e).annual_retirement_spending
                       = Some(b.annual_retirement_spending)
            /\ \A r \in rows :
                 /\ Val(e).nest_egg_growth_rate
                       = Resolved(r.overrides_nest_egg_growth_rate,
                                  r.nest_egg_growth_rate,
                                  b.nest_egg_growth_rate)
                 /\ Val(e).inflation_rate
                       = Resolved(r.overrides_inflation_rate,
                                  r.inflation_rate, b.inflation_rate)
                 /\ Val(e).annual_retirement_spending
                       = Resolved(r.overrides_annual_retirement_spending,
                                  r.annual_retirement_spending,
                                  b.annual_retirement_spending)

\* C9 witness: scenario 1 overrides the inflation rate alone (4 against the
\* plan's 3); growth rate and spending resolve to the plan's 6 and 50, and
\* scenario 2, which has no assumption row, resolves to its plan's values.
C9_Witness ==
    /\ \E r \in AssumptionRows(1) :
          /\ r.overrides_nest_egg_growth_rate = 0
          /\ r.overrides_inflation_rate = 1
          /\ r.overrides_annual_retirement_spending = 0
    /\ get_scenario_effective_assumptions(1) =
          Some([scenario_id |-> 1, plan_id |-> 1,
                nest_egg_growth_rate |-> Some(6), inflation_rate |-> Some(4),
                annual_retirement_spending |-> Some(50)])
    /\ AssumptionRows(2) = {}
    /\ get_scenario_effective_assumptions(2) =
          Some([scenario_id |-> 2, plan_id |-> 2,
                nest_egg_growth_rate |-> Some(7), inflation_rate |-> Some(2),
                annual_retirement_spending |-> Some(40)])

C10_Step ==
    /\ \A r \in scenario_assumptions :
         \E n \in AssumptionRows(r.scenario_id)' :
           /\ r.overrides_nest_egg_growth_rate = 1
                 => n.overrides_nest_egg_growth_rate = 1
           /\ r.overrides_inflation_rate = 1 => n.overrides_inflation_rate = 1
           /\ r.overrides_annual_retirement_spending = 1
                 => n.overrides_annual_retirement_spending = 1
    /\ \A s \in ScenarioIdsNow :
         (Succeeded("update_scenario")' /\ last'.result = Some(TRUE)
            /\ last'.args.scenario_id = s
            /\ ~IsNone(last'.args.assumption_overrides))
         => LET o == Val(last'.args.assumption_overrides)
                old_rows == AssumptionRows(s)
                new_rows == AssumptionRows(s)'
            IN  /\ Cardinality(new_rows) = 1
                /\ scenario_assumptions' \ new_rows
                      = scenario_assumptions \ old_rows
                /\ old_rows = {} =>
                     \A new \in new_rows :
                       /\ new.overrides_nest_egg_growth_rate
                             = Flag(o.nest_egg_growth_rate)
                       /\ new.nest_egg_growth_rate = o.nest_egg_growth_rate
                       /\ new.overrides_inflation_rate = Flag(o.inflation_rate)
                       /\ new.inflation_rate = o.inflation_rate
                       /\ new.overrides_annual_retirement_spending
                             = Flag(o.annual_retirement_spending)
                       /\ new.annual_retirement_spending
                             = o.annual_retirement_spending
                /\ \A old \in old_rows :
                     \E new \in new_rows :
                       /\ FieldWritten(o.nest_egg_growth_rate,
                                       new.overrides_nest_egg_growth_rate,
                                       new.nest_egg_growth_rate,
                                       old.overrides_nest_egg_growth_rate,
                                       old.nest_egg_growth_rate)
                       /\ FieldWritten(o.inflation_rate,
                                       new.overrides_inflation_rate,
                                       new.inflation_rate,
                                       old.overrides_inflation_rate,
                                       old.inflation_rate)
                       /\ FieldWritten(o.annual_retirement_spending,
                                       new.overrides_annual_retirement_spending,
                                       new.annual_retirement_spending,
                                       old.overrides_annual_retirement_spending,
                                       old.annual_retirement_spending)

\* C10: update_scenario with assumption_overrides creates the scenario's
\* assumption row if it is absent and otherwise changes the overridden-flag
\* and value of exactly the keys supplied; every omitted key keeps its flag
\* and value, and no update_scenario call clears a flag that was set.
C10_AssumptionMerge == [][C10_Step]_vars

\* C10 witness: scenario 1's assumption row, whose growth rate an earlier
\* call set to 5, has just been given inflation rate 5 by a call that
\* supplied that key alone; the growth-rate override is still there and
\* spending is still not overridden.
C10_Witness ==
    /\ Succeeded("update_scenario")
    /\ last.args.scenario_id = 1
    /\ last.args.assumption_overrides =
          Some([nest_egg_growth_rate |-> NULL, inflation_rate |-> Some(5),
                annual_retirement_spending |-> NULL])
    /\ \E r \in AssumptionRows(1) :
          /\ r.overrides_nest_egg_growth_rate = 1
          /\ r.nest_egg_growth_rate = Some(5)
          /\ r.overrides_inflation_rate = 1 /\ r.inflation_rate = Some(5)
          /\ r.overrides_annual_retirement_spending = 0

-----------------------------------------------------------------------------
(* The life of a scenario: create_scenario on plan 1 and on an id no plan   *)
(* has, update_scenario and delete_scenario on scenario 2, on the scenarios *)
(* created and on an id no scenario has.  Scenario ids stay within          *)
(* MaxScenarios.                                                            *)

MaxScenarios == 3

CreatePlanIds == {1, 9}

CreateGrowthRates == {NULL, Some(250), Some(5)}

CreateInflationRates == {NULL, Some(4)}

CreateSpendings == {NULL, Some(0 - 1)}

CreateOverrides ==
    {NULL} \cup
    { Some([nest_egg_growth_rate |-> g, inflation_rate |-> i,
            annual_retirement_spending |-> sp]) :
        g \in CreateGrowthRates, i \in CreateInflationRates,
        sp \in CreateSpendings }

LifeScenarioIds == {2, 3, 9}

LifeOverrides ==
    { NULL,
      Some([nest_egg_growth_rate |-> NULL, inflation_rate |-> Some(5),
            annual_retirement_spending |-> NULL]),
      Some([nest_egg_growth_rate |-> Some(250), inflation_rate |-> NULL,
            annual_retirement_spending |-> NULL]) }

CreateScenarioCall ==
    /\ LastRowId({ s.scenario_id : s \in scenarios }) <= MaxScenarios
    /\ \E p \in CreatePlanIds, o \in CreateOverrides : create_scenario(p, "b", o)
    /\ UNCHANGED ncalls

LifeUpdateScenarioCall ==
    /\ \E s \in LifeScenarioIds, n \in ScenarioNames, o \in LifeOverrides :
          update_scenario(s, n, o)
    /\ UNCHANGED ncalls

DeleteScenarioCall ==
    /\ \E s \in LifeScenarioIds : delete_scenario(s)
    /\ UNCHANGED ncalls

NextScenarios ==
    \/ CreateScenarioCall
    \/ LifeUpdateScenarioCall
    \/ DeleteScenarioCall

SpecScenarios == Init /\ [][NextScenarios]_vars

C11_Step ==
    /\ Failed("create_scenario")' => UNCHANGED <<scenarios, scenario_assumptions>>
    /\ (last'.op = "create_scenario"
          /\ ~ \E p \in plans : p.plan_id = last'.args.plan_id)
       => Failed("create_scenario")'
    /\ Succeeded("create_scenario")' =>
         LET o == last'.args.assumption_overrides
             id == Val(last'.result)
             created == [scenario_id |-> id, plan_id |-> last'.args.plan_id,
                         scenario_name |-> last'.args.scenario_name]
         IN  /\ id \notin ScenarioIdsNow
             /\ scenarios' = scenarios \cup {created}
             /\ IsNone(o) => UNCHANGED scenario_assumptions
             /\ ~IsNone(o) =>
                  /\ \A r \in {Val(o).nest_egg_growth_rate, Val(o).inflation_rate} :
                        ~IsNone(r) => (Val(r) >= 0 - 200 /\ Val(r) <= 200)
                  /\ ~IsNone(Val(o).annual_retirement_spending)
                        => Val(Val(o).annual_retirement_spending) >= 0
                  /\ \E row \in scenario_assumptions' :
                        /\ scenario_assumptions' = scenario_assumptions \cup {row}
                        /\ row.scenario_id = id
                        /\ row.overrides_nest_egg_growth_rate
                              = Flag(Val(o).nest_egg_growth_rate)
                        /\ row.nest_egg_growth_rate = Val(o).nest_egg_growth_rate
                        /\ row.overrides_inflation_rate
                              = Flag(Val(o).inflation_rate)
                        /\ row.inflation_rate = Val(o).inflation_rate
                        /\ row.overrides_annual_retirement_spending
                              = Flag(Val(o).annual_retirement_spending)
                        /\ row.annual_retirement_spending
                              = Val(o).annual_retirement_spending

\* C11: create_scenario raises and leaves neither a scenario row nor an
\* assumption row behind when the plan does not exist or a supplied
\* assumption override is out of range (a rate outside [-200, 200] or
\* spending < 0); with valid input it stores exactly one new scenario and,
\* when overrides are given, one assumption row whose overridden-flags are
\* set for exactly the keys supplied.
C11_CreateScenario == [][C11_Step]_vars

\* C11 witness: after scenario 2 was deleted a new scenario 2 was created on
\* plan 1 with the inflation rate alone (flags 0, 1, 0), and the call just
\* made, again on plan 1, raised on its growth rate after its INSERT INTO
\* scenarios: no further scenario and no second assumption row is there.
C11_Witness ==
    /\ Failed("create_scenario")
    /\ last.args.plan_id = 1
    /\ last.error = "Growth rate must be between -200 and 200"
    /\ { s.scenario_id : s \in scenarios } = {1, 2}
    /\ \E r \in scenario_assumptions :
          /\ scenario_assumptions = {r}
          /\ r.scenario_id = 2
          /\ r.overrides_nest_egg_growth_rate = 0
          /\ r.overrides_inflation_rate = 1 /\ r.inflation_rate = Some(4)
          /\ r.overrides_annual_retirement_spending = 0

-----------------------------------------------------------------------------
(* The Fact Store: create_asset on plan 1 and on an id no plan has,         *)
(* update_asset on asset 2 (plan 1, owned by person 1 alone), on the asset  *)
(* created and on an id no asset has, delete_person, and the two category   *)
(* deletes.  Asset ids stay within MaxAssets.                               *)

MaxAssets == 4

FactPlanIds == {1, 9}

FactCategoryIds == {3, 9}

FactValues == {0 - 1, 120}

OwnerLists == { << >>, <<1>>, <<1, 2>>, <<3>>, <<1, 1>> }

FactRates == {NULL, Some(250)}

FactAssetIds == {2, 4, 9}

FactNewValues == {NULL, Some(0 - 1), Some(90)}

FactNewOwners == {NULL, Some(<< >>), Some(<<2>>), Some(<<3>>), Some(<<1, 2>>)}

FactPersonIds == {1, 2, 9}

FactDeleteCategoryIds == {1, 3, 9}

CreateAssetCall ==
    /\ LastRowId({ a.asset_id : a \in assets }) <= MaxAssets
    /\ \E p \in FactPlanIds, c \in FactCategoryIds, v \in FactValues,
          o \in OwnerLists, g \in FactRates :
            create_asset(p, c, v, o, TRUE, g)
    /\ UNCHANGED ncalls

UpdateAssetCall ==
    /\ \E a \in FactAssetIds, v \in FactNewValues, o \in FactNewOwners :
          update_asset(a, v, NULL, NULL, o)
    /\ UNCHANGED ncalls

DeletePersonCall ==
    /\ \E p \in FactPersonIds : delete_person(p)
    /\ UNCHANGED ncalls

DeleteAssetCategoryCall ==
    /\ \E c \in FactDeleteCategoryIds : delete_asset_category(c)
    /\ UNCHANGED ncalls

DeleteLiabilityCategoryCall ==
    /\ \E c \in FactDeleteCategoryIds : delete_liability_category(c)
    /\ UNCHANGED ncalls

NextFacts ==
    \/ CreateAssetCall
    \/ UpdateAssetCall
    \/ DeletePersonCall
    \/ DeleteAssetCategoryCall
    \/ DeleteLiabilityCategoryCall

SpecFacts == Init /\ [][NextFacts]_vars

\* every table of the store
tables == <<people, plans, base_assumptions, asset_categories, assets,
            asset_owners, asset_growth_adjustments, liability_categories,
            liabilities, inflows_outflows, retirement_income_plans,
            retirement_income_owners, scenarios,
            scenario_assumptions, scenario_growth_adjustments,
            scenario_person_overrides, scenario_assets, scenario_liabilities,
            scenario_inflows_outflows, scenario_retirement_income>>

C12_Step ==
    /\ last'.error # "" => UNCHANGED tables
    /\ (last'.op \in {"create_asset", "update_asset"}
          /\ last'.error = "All owners must belong to the household")
       => UNCHANGED <<assets, asset_owners>>

\* C12: when operations run one at a time, every mutating operation that
\* raises leaves every table exactly as it was before the call; in
\* particular a create_asset or update_asset call that fails owner
\* verification persists no asset row, no field update and no owner-link
\* change.
C12_RaiseLeavesStore == [][C12_Step]_vars

\* C12 witness: update_asset(2, value=90, owner_ids=[3]) has just raised on
\* its owner check, which runs after its UPDATE assets; asset 2 still has
\* value 200 and person 1 as its only owner.
C12_Witness ==
    /\ Failed("update_asset")
    /\ last.error = "All owners must belong to the household"
    /\ last.args.asset_id = 2
    /\ last.args.value = Some(90)
    /\ last.args.owner_ids = Some(<<3>>)
    /\ \E a \in assets : a.asset_id = 2 /\ a.value = 200
    /\ { ao.person_id : ao \in { x \in asset_owners : x.asset_id = 2 } } = {1}

\* C18: in every reachable state every asset has at least one owner and all
\* of its owners belong to the household of the asset's plan, after any
\* sequence of create_asset, update_asset (with or without owner_ids) and
\* delete_person calls.
C18_AssetsOwned ==
    \A a \in assets :
      LET owners == { ao.person_id : ao \in { x \in asset_owners :
                                                x.asset_id = a.asset_id } }
      IN  /\ owners # {}
          /\ \A o \in owners :
               \E p \in people, pl \in plans :
                 /\ p.person_id = o
                 /\ pl.plan_id = a.plan_id
                 /\ p.household_id = pl.household_id

C19_Step ==
    /\ \A c \in asset_categories :
         (last'.op = "delete_asset_category"
            /\ last'.args.category_id = c.asset_category_id)
         => IF \E a \in assets : a.asset_category_id = c.asset_category_id
              THEN /\ Failed("delete_asset_category")'
                   /\ UNCHANGED <<asset_categories, assets>>
              ELSE /\ Succeeded("delete_asset_category")'
                   /\ last'.result = Some(TRUE)
                   /\ asset_categories' = asset_categories \ {c}
                   /\ UNCHANGED assets
    /\ \A c \in liability_categories :
         (last'.op = "delete_liability_category"
            /\ last'.args.category_id = c.liability_category_id)
         => IF \E l \in liabilities :
                  l.liability_category_id = c.liability_category_id
              THEN /\ Failed("delete_liability_category")'
                   /\ UNCHANGED <<liability_categories, liabilities>>
              ELSE /\ Succeeded("delete_liability_category")'
                   /\ last'.result = Some(TRUE)
                   /\ liability_categories' = liability_categories \ {c}
                   /\ UNCHANGED liabilities

-----------------------------------------------------------------------------
(* Plans: create_plan for households 1 and 2 with a reference person of the *)
(* household, of the other household or that nobody is, with and without    *)
(* an inflation rate.  Plan ids stay within MaxPlans.                       *)

MaxPlans == 4

PlanHouseholdIds == {1, 2}

PlanReferencePersonIds == {1, 3, 9}

PlanCreationYears == {NULL, Some(3)}

PlanGrowthRates == {NULL, Some(5)}

PlanInflationRates == {NULL, Some(4)}

PlanSpendings == {NULL}

PlanBaseAssumptions ==
    {NULL} \cup
    { Some([nest_egg_growth_rate |-> g, inflation_rate |-> i,
            annual_retirement_spending |-> sp]) :
        g \in PlanGrowthRates, i \in PlanInflationRates, sp \in PlanSpendings }

CreatePlanCall ==
    /\ LastRowId({ p.plan_id : p \in plans }) <= MaxPlans
    /\ \E h \in PlanHouseholdIds, r \in PlanReferencePersonIds,
          y \in PlanCreationYears, b \in PlanBaseAssumptions :
            create_plan(h, r, y, b)
    /\ UNCHANGED ncalls

NextPlans == CreatePlanCall

SpecPlans == Init /\ [][NextPlans]_vars

C20_Step ==
    /\ Failed("create_plan")' => UNCHANGED <<plans, base_assumptions>>
    /\ (last'.op = "create_plan"
          /\ \/ ~ \E p \in people :
                    /\ p.person_id = last'.args.reference_person_id
                    /\ p.household_id = last'.args.household_id
             \/ IsNone(last'.args.base_assumptions)
             \/ IsNone(Val(last'.args.base_assumptions).inflation_rate))
       => Failed("create_plan")'
    /\ Succeeded("create_plan")' =>
         LET id == Val(last'.result)
         IN  /\ ~ \E p \in plans : p.plan_id = id
             /\ \E p \in plans' :
                   /\ plans' = plans \cup {p}
                   /\ p.plan_id = id
                   /\ p.household_id = last'.args.household_id
                   /\ p.reference_person_id = last'.args.reference_person_id
             /\ \E b \in base_assumptions' :
                   /\ base_assumptions' = base_assumptions \cup {b}
                   /\ b.plan_id = id
                   /\ Some(b.inflation_rate)
                         = Val(last'.args.base_assumptions).inflation_rate
             /\ Cardinality({ b \in base_assumptions' : b.plan_id = id }) = 1

\* C20: create_plan raises and persists neither a plan row nor a
\* base_assumptions row when the reference person is not in the given
\* household or when inflation_rate is absent from base_assumptions; on
\* success the new plan has exactly one base_assumptions record.
C20_CreatePlan == [][C20_Step]_vars

\* C20 witness: plan 3 was created for household 1 with inflation rate 4
\* and the defaults 6 and 0 for the keys left out, and the call just made,
\* with a reference person of the household but no inflation rate, raised
\* after its INSERT INTO plans: there is no plan 4.
C20_Witness ==
    /\ Failed("create_plan")
    /\ last.error = "inflation_rate is required in base assumptions"
    /\ { p.plan_id : p \in plans } = {1, 2, 3}
    /\ \E b \in base_assumptions :
          /\ b.plan_id = 3 /\ b.inflation_rate = 4
          /\ b.nest_egg_growth_rate = 6 /\ b.annual_retirement_spending = 0
    /\ Cardinality(base_assumptions) = 3

-----------------------------------------------------------------------------
(* Growth adjustments, checked under SpecGrowth.                            *)

GrowthAssetIds == {1, 9}

GrowthScenarioIds == {1}

AdjustmentYears == 1..3

AdjustmentRates == {5, 250}

AddGrowthAdjustmentCall ==
    /\ \E a \in GrowthAssetIds, s \in AdjustmentYears, e \in AdjustmentYears, g \in AdjustmentRates :
          add_growth_adjustment(a, s, e, g)
    /\ UNCHANGED ncalls

AddScenarioGrowthAdjustmentCall ==
    /\ \E sc \in GrowthScenarioIds, s \in AdjustmentYears, e \in AdjustmentYears, g \in AdjustmentRates :
          add_scenario_growth_adjustment(sc, s, e, g)
    /\ UNCHANGED ncalls

NextGrowth ==
    \/ AddGrowthAdjustmentCall
    \/ AddScenarioGrowthAdjustmentCall

SpecGrowth == Init /\ [][NextGrowth]_vars

\* two closed intervals of years share a year
ClosedIntervalsOverlap(s1, e1, s2, e2) == s1 <= e2 /\ s2 <= e1

C17_PairwiseDisjoint ==
    /\ \A r1 \in asset_growth_adjustments, r2 \in asset_growth_adjustments :
          (r1 # r2 /\ r1.asset_id = r2.asset_id)
          => ~ClosedIntervalsOverlap(r1.start_year, r1.end_year,
                                     r2.start_year, r2.end_year)
    /\ \A r1 \in scenario_growth_adjustments, r2 \in scenario_growth_adjustments :
          (r1 # r2 /\ r1.scenario_id = r2.scenario_id)
          => ~ClosedIntervalsOverlap(r1.start_year, r1.end_year,
                                     r2.start_year, r2.end_year)

C17_Step ==
    /\ (last'.op = "add_growth_adjustment"
          /\ last'.args.start_year <= last'.args.end_year
          /\ last'.args.growth_rate >= 0 - 200 /\ last'.args.growth_rate <= 200
          /\ \E a \in assets : a.asset_id = last'.args.asset_id)
       => LET overlapped ==
                  \E r \in asset_growth_adjustments :
                     /\ r.asset_id = last'.args.asset_id
                     /\ ClosedIntervalsOverlap(r.start_year, r.end_year,
                                               last'.args.start_year,
                                               last'.args.end_year)
              stored == asset_growth_adjustments' \ asset_growth_adjustments
          IN  /\ overlapped <=> Failed("add_growth_adjustment")'
              /\ overlapped => UNCHANGED asset_growth_adjustments
              /\ ~overlapped =>
                   /\ asset_growth_adjustments \subseteq asset_growth_adjustments'
                   /\ Cardinality(stored) = 1
                   /\ \A r \in stored :
                        /\ r.asset_id = last'.args.asset_id
                        /\ r.start_year = last'.args.start_year
                        /\ r.end_year = last'.args.end_year
                        /\ r.growth_rate = last'.args.growth_rate
                        /\ last'.result = Some(r.adjustment_id)
    /\ (last'.op = "add_scenario_growth_adjustment"
          /\ last'.args.start_year <= last'.args.end_year
          /\ last'.args.growth_rate >= 0 - 200 /\ last'.args.growth_rate <= 200
          /\ \E s \in scenarios : s.scenario_id = last'.args.scenario_id)
       => LET overlapped ==
                  \E r \in scenario_growth_adjustments :
                     /\ r.scenario_id = last'.args.scenario_id
                     /\ ClosedIntervalsOverlap(r.start_year, r.end_year,
                                               last'.args.start_year,
                                               last'.args.end_year)
              stored == scenario_growth_adjustments' \ scenario_growth_adjustments
          IN  /\ overlapped <=> Failed("add_scenario_growth_adjustment")'
              /\ overlapped => UNCHANGED scenario_growth_adjustments
              /\ ~overlapped =>
                   /\ scenario_growth_adjustments
                         \subseteq scenario_growth_adjustments'
                   /\ Cardinality(stored) = 1
                   /\ \A r \in stored :
                        /\ r.scenario_id = last'.args.scenario_id
                        /\ r.start_year = last'.args.start_year
                        /\ r.end_year = last'.args.end_year
                        /\ r.growth_rate = last'.args.growth_rate

\* C17: with start_year <= end_year and a rate in [-200, 200],
\* add_growth_adjustment on an asset is rejected exactly when the new closed
\* interval [s2,e2] overlaps an existing adjustment [s1,e1] of that asset
\* (s1 <= e2 and s2 <= e1) and is stored otherwise, so after any sequence of
\* calls the adjustments of each asset are pairwise non-overlapping; the
\* scenario-level add_growth_adjustment obeys the same rule per scenario.
C17_GrowthAdjustments == []C17_PairwiseDisjoint /\ [][C17_Step]_vars

\* C17 witness: asset 1 holds the single adjustment [2,2]; the call for
\* [1,3], which contains it, has just been rejected as overlapping, while
\* scenario 1 holds the two disjoint adjustments [1,1] and [2,3].
C17_Witness ==
    /\ Failed("add_growth_adjustment")
    /\ last.error = "Growth adjustment overlaps with existing adjustment"
    /\ last.args.asset_id = 1
    /\ last.args.start_year = 1 /\ last.args.end_year = 3
    /\ { <<r.asset_id, r.start_year, r.end_year>> : r \in asset_growth_adjustments }
          = { <<1, 2, 2>> }
    /\ { <<r.scenario_id, r.start_year, r.end_year>> :
           r \in scenario_growth_adjustments }
          = { <<1, 1, 1>>, <<1, 2, 3>> }

-----------------------------------------------------------------------------
(* Deleting a scenario, checked under SpecCascade: scenario 1 is given rows *)
(* in each of the seven scenario tables, scenario 2 in two of them, and     *)
(* either scenario, or an id no scenario has, is deleted at any point.      *)

CascadeAssetPairs == { <<1, 1>>, <<2, 3>> }

CascadeScenarioIds == {1, 2}

CascadeDeleteIds == {1, 2, 9}

CascadeAssumptions ==
    Some([nest_egg_growth_rate |-> NULL, inflation_rate |-> Some(4),
          annual_retirement_spending |-> NULL])

CascadeAssetCall ==
    /\ \E p \in CascadeAssetPairs :
          override_asset(p[1], p[2], Some(150), NULL, NULL, FALSE)
    /\ UNCHANGED ncalls

CascadeLiabilityCall ==
    /\ override_liability(1, 1, Some(200), NULL, NULL, FALSE)
    /\ UNCHANGED ncalls

CascadeInflowOutflowCall ==
    /\ override_inflow_outflow(1, 1, Some(80), NULL, NULL, NULL, FALSE)
    /\ UNCHANGED ncalls

CascadeRetirementIncomeCall ==
    /\ override_retirement_income(1, 1, Some(55), NULL, NULL, NULL, NULL, FALSE)
    /\ UNCHANGED ncalls

CascadePersonCall ==
    /\ update_person_overrides(1, 1, Some(4), Some(6))
    /\ UNCHANGED ncalls

CascadeAssumptionsCall ==
    /\ \E s \in CascadeScenarioIds : update_scenario(s, NULL, CascadeAssumptions)
    /\ UNCHANGED ncalls

CascadeGrowthAdjustmentCall ==
    /\ add_scenario_growth_adjustment(1, 1, 2, 5)
    /\ UNCHANGED ncalls

CascadeDeleteCall ==
    /\ \E s \in CascadeDeleteIds : delete_scenario(s)
    /\ UNCHANGED ncalls

NextCascade ==
    \/ CascadeAssetCall
    \/ CascadeLiabilityCall
    \/ CascadeInflowOutflowCall
    \/ CascadeRetirementIncomeCall
    \/ CascadePersonCall
    \/ CascadeAssumptionsCall
    \/ CascadeGrowthAdjustmentCall
    \/ CascadeDeleteCall

SpecCascade == Init /\ [][NextCascade]_vars

\* the rows of a table that belong to other scenarios than scenario_id
OfOtherScenarios(table, scenario_id) ==
    { r \in table : r.scenario_id # scenario_id }

C16_Step ==
    \A s \in ScenarioIdsNow :
      (Succeeded("delete_scenario")' /\ last'.result = Some(TRUE)
         /\ last'.args.scenario_id = s)
      => /\ IsNone(get_scenario(s))'
         /\ scenarios' = OfOtherScenarios(scenarios, s)
         /\ scenario_assumptions' = OfOtherScenarios(scenario_assumptions, s)
         /\ scenario_growth_adjustments'
               = OfOtherScenarios(scenario_growth_adjustments, s)
         /\ scenario_person_overrides'
               = OfOtherScenarios(scenario_person_overrides, s)
         /\ scenario_assets' = OfOtherScenarios(scenario_assets, s)
         /\ scenario_liabilities' = OfOtherScenarios(scenario_liabilities, s)
         /\ scenario_inflows_outflows'
               = OfOtherScenarios(scenario_inflows_outflows, s)
         /\ scenario_retirement_income'
               = OfOtherScenarios(scenario_retirement_income, s)
         /\ UNCHANGED base_tables

\* C16: after delete_scenario(s) returns True, get_scenario(s) returns None
\* and no assumption row, growth adjustment, person override, asset,
\* liability, cash-flow or income override row with scenario id s remains,
\* while every base entity and every row of every other scenario is
\* unchanged.
C16_DeleteScenario ==
    /\ [][C16_Step]_vars
    /\ [](Succeeded("delete_scenario") /\ last.result = Some(TRUE)
            => /\ IsNone(get_scenario(last.args.scenario_id))
               /\ \A r \in scenario_assumptions \cup scenario_growth_adjustments
                        \cup scenario_person_overrides \cup scenario_assets
                        \cup scenario_liabilities \cup scenario_inflows_outflows
                        \cup scenario_retirement_income :
                     r.scenario_id # last.args.scenario_id)

\* C16 witness: scenario 2 has just been deleted while scenario 1 has a row
\* in each of the seven scenario tables; scenario 1's asset override carries
\* row id 2, so the override with row id 1, which scenario 2 made before it,
\* went with its scenario, and nothing of scenario 2 is left.
C16_Witness ==
    /\ Succeeded("delete_scenario") /\ last.result = Some(TRUE)
    /\ last.args.scenario_id = 2
    /\ ScenarioIdsNow = {1}
    /\ { r.scenario_asset_id : r \in scenario_assets } = {2}
    /\ \A t \in { scenario_assumptions, scenario_growth_adjustments,
                  scenario_person_overrides, scenario_assets,
                  scenario_liabilities, scenario_inflows_outflows,
                  scenario_retirement_income } :
          { r.scenario_id : r \in t } = {1}

-----------------------------------------------------------------------------
(* Updates and deletes of an id nothing has, checked under SpecScenarios.   *)

\* the call that has just ended was given an id that no row of the table had
MissingId(op, field, ids) ==
    last'.op = op /\ last'.args[field] \notin ids

\* it returned False, raised nothing and wrote nothing
ReturnedFalseUntouched ==
    /\ last'.error = ""
    /\ last'.result = Some(FALSE)
    /\ UNCHANGED tables

C15_Step ==
    /\ MissingId("update_scenario", "scenario_id", ScenarioIdsNow)
          => ReturnedFalseUntouched
    /\ MissingId("delete_scenario", "scenario_id", ScenarioIdsNow)
          => ReturnedFalseUntouched

\* C15: every update_* and delete_* operation called with an id that does
\* not exist returns False without raising and writes nothing; this includes
\* update_scenario on a non-existent scenario id whether it is given a name,
\* assumption overrides, or both.
C15_MissingIdReturnsFalse == [][C15_Step]_vars

-----------------------------------------------------------------------------
(* Two override_asset calls as interleaved coroutines on the shared         *)
(* connection. Every "await conn.execute(...)" is a point where the other   *)
(* coroutine may run, so each statement is a step of its own. The           *)
(* connection is in autocommit mode (isolation_level=None): a statement     *)
(* outside BEGIN..COMMIT is written through at once, and a write inside it  *)
(* is undone by ROLLBACK, whichever coroutine issues the ROLLBACK.          *)

\* the two coroutines
Tasks == {1, 2}

InterleavedScenarioIds == {1}

InterleavedAssetIds == {1, 2, 3}

InterleavedValues == {Some(150), Some(160)}

\* (mutant) a BEGIN that the connection accepts inside an open transaction
BeginRejectedNever(conn) == FALSE

\* conn.execute("BEGIN") inside an open transaction raises
\* OperationalError (cannot start a transaction within a transaction)
BeginRejected(conn) == conn.in_transaction

\* a coroutine that has been called and has not run yet; row is what its
\* existence check fetched, result the row id its block returns, and error
\* the exception it is raising, which replaces the result
Called(scenario_id, asset_id, value) ==
    [pc |-> "BEGIN", scenario_id |-> scenario_id, asset_id |-> asset_id,
     value |-> value, row |-> NULL, error |-> "", result |-> NULL]

\* both calls are made; neither has executed a statement yet
StartCalls ==
    /\ coroutines = << >>
    /\ \E a1 \in {1}, a2 \in InterleavedAssetIds, v1 \in {Some(150)}, v2 \in InterleavedValues :
          coroutines' = << Called(1, a1, v1), Called(1, a2, v2) >>
    /\ UNCHANGED <<connection, tables, last, ncalls, pool>>

\* the coroutine's next statement is pc
At(t, pc) == t \in DOMAIN coroutines /\ coroutines[t].pc = pc

\* the exception msg is raised inside transaction(): its except branch runs
Raise(t, msg) ==
    coroutines' = [coroutines EXCEPT ![t].pc = "ROLLBACK", ![t].error = msg]

Goto(t, pc) == coroutines' = [coroutines EXCEPT ![t].pc = pc]

\* await conn.execute("BEGIN")
BeginStep ==
    \E t \in Tasks :
      /\ At(t, "BEGIN")
      /\ IF BeginRejected(connection)
           THEN /\ Raise(t, "cannot start a transaction within a transaction")
                /\ UNCHANGED connection
           ELSE /\ Goto(t, "verify")
                /\ connection' = [in_transaction |-> TRUE,
                                  journal |-> scenario_assets]
      /\ UNCHANGED <<tables, last, ncalls, pool>>

\* the SELECT joining the asset with the scenario, and the two checks on it
VerifyStep ==
    \E t \in Tasks :
      /\ At(t, "verify")
      /\ LET joined == AssetScenarioJoin(coroutines[t].scenario_id,
                                         coroutines[t].asset_id)
         IN  IF joined = {} THEN Raise(t, "Asset not found")
             ELSE IF \E row \in joined : AssetPlanMismatch(row)
               THEN Raise(t, "Asset must belong to the scenario's plan")
             ELSE Goto(t, "check")
      /\ UNCHANGED <<connection, tables, last, ncalls, pool>>

\* SELECT scenario_asset_id FROM scenario_assets WHERE ...; row = fetchone()
CheckStep ==
    \E t \in Tasks :
      /\ At(t, "check")
      /\ LET existing == ExistingAssetOverride(coroutines[t].scenario_id,
                                               coroutines[t].asset_id)
         IN  IF existing = {}
               THEN coroutines' = [coroutines EXCEPT ![t].pc = "write",
                                                     ![t].row = NULL]
               ELSE \E row \in existing :
                      coroutines' =
                        [coroutines EXCEPT ![t].pc = "write",
                                           ![t].row = Some(row.scenario_asset_id)]
      /\ UNCHANGED <<connection, tables, last, ncalls, pool>>

\* the UPDATE of the row found, or the INSERT when none was found
WriteStep ==
    \E t \in Tasks :
      /\ At(t, "write")
      /\ LET c == coroutines[t]
             id == LastRowId({ r.scenario_asset_id : r \in scenario_assets })
         IN  IF ~IsNone(c.row)
               THEN /\ scenario_assets' =
                         { IF r.scenario_asset_id = Val(c.row)
                             THEN AssetOverrideUpdate(r, c.value, NULL, NULL, FALSE)
                             ELSE r : r \in scenario_assets }
                    /\ coroutines' = [coroutines EXCEPT ![t].pc = "COMMIT",
                                                        ![t].result = c.row]
               ELSE /\ scenario_assets' = scenario_assets \cup
                         { AssetOverrideInsert(id, c.scenario_id, c.asset_id,
                                               c.value, NULL, NULL, FALSE) }
                    /\ coroutines' = [coroutines EXCEPT ![t].pc = "COMMIT",
                                                        ![t].result = Some(id)]
      /\ UNCHANGED <<base_tables, scenarios, scenario_assumptions,
                     scenario_growth_adjustments, scenario_person_overrides,
                     scenario_liabilities, scenario_inflows_outflows,
                     scenario_retirement_income, connection, last, ncalls, pool>>

\* await conn.execute("COMMIT") after the block; with no transaction open it
\* raises OperationalError (cannot commit - no transaction is active)
CommitStep ==
    \E t \in Tasks :
      /\ At(t, "COMMIT")
      /\ IF connection.in_transaction
           THEN /\ connection' = [in_transaction |-> FALSE, journal |-> {}]
                /\ Goto(t, "done")
           ELSE /\ coroutines' =
                     [coroutines EXCEPT
                        ![t].pc = "ROLLBACK",
                        ![t].error = "cannot commit - no transaction is active"]
                /\ UNCHANGED connection
      /\ UNCHANGED <<tables, last, ncalls, pool>>

\* except Exception: await conn.execute("ROLLBACK"); raise. With no
\* transaction open the ROLLBACK raises in its turn.
RollbackStep ==
    \E t \in Tasks :
      /\ At(t, "ROLLBACK")
      /\ IF connection.in_transaction
           THEN /\ scenario_assets' = connection.journal
                /\ connection' = [in_transaction |-> FALSE, journal |-> {}]
                /\ Goto(t, "done")
           ELSE /\ coroutines' =
                     [coroutines EXCEPT
                        ![t].pc = "done",
                        ![t].error = "cannot rollback - no transaction is active"]
                /\ UNCHANGED <<scenario_assets, connection>>
      /\ UNCHANGED <<base_tables, scenarios, scenario_assumptions,
                     scenario_growth_adjustments, scenario_person_overrides,
                     scenario_liabilities, scenario_inflows_outflows,
                     scenario_retirement_income, last, ncalls, pool>>

\* both coroutines have returned or raised; the caller has their outcomes
\* and may make two calls again
ReturnCalls ==
    /\ coroutines # << >>
    /\ \A t \in Tasks : At(t, "done")
    /\ coroutines' = << >>
    /\ UNCHANGED <<connection, tables, last, ncalls, pool>>

NextInterleaved ==
    \/ StartCalls
    \/ BeginStep
    \/ VerifyStep
    \/ CheckStep
    \/ WriteStep
    \/ CommitStep
    \/ RollbackStep
    \/ ReturnCalls

SpecInterleaved == Init /\ [][NextInterleaved]_vars

\* C13: when two override_asset calls for the same (scenario, asset) pair
\* run as interleaved coroutines, each performing its existence check and
\* then its insert or update on the shared connection, at most one override
\* row for that pair exists in every reachable state.
C13_OneRowPerPair ==
    \A s \in InterleavedScenarioIds, a \in InterleavedAssetIds :
       Cardinality(AssetOverrideRows(s, a)) <= 1

\* C13 witness: both coroutines were called for the pair (1, 1) and their
\* statements interleaved: the second one's BEGIN came inside the first
\* one's transaction and was rejected, its ROLLBACK ended that transaction,
\* and the first went on to make its existence check and its INSERT; the
\* pair has one row.
C13_Witness ==
    /\ coroutines # << >>
    /\ coroutines[1].asset_id = 1 /\ coroutines[2].asset_id = 1
    /\ coroutines[1].pc = "COMMIT" /\ coroutines[1].row = NULL
    /\ coroutines[2].pc = "done"
    /\ coroutines[2].error = "cannot start a transaction within a transaction"
    /\ Cardinality(AssetOverrideRows(1, 1)) = 1

\* coroutine t has returned (error "") or raised; its existence check had
\* found no row, and the two calls were for different assets, so that the
\* pair's row is the work of this call's INSERT alone
Finished(t) ==
    /\ coroutines # << >>
    /\ coroutines[t].pc = "done"
    /\ IsNone(coroutines[t].row)
    /\ coroutines[1].asset_id # coroutines[2].asset_id

\* the row that coroutine t's INSERT wrote is in the store
Persisted(t) ==
    /\ ~IsNone(coroutines[t].result)
    /\ \E r \in AssetOverrideRows(coroutines[t].scenario_id, coroutines[t].asset_id) :
          /\ r.scenario_asset_id = Val(coroutines[t].result)
          /\ r.value = coroutines[t].value

\* a call that reports success has persisted its row and a call that
\* reports failure has persisted nothing
C14_Outcome ==
    \A t \in Tasks :
       Finished(t) => (coroutines[t].error = "" <=> Persisted(t))

\* a ROLLBACK step of one coroutine removes no row of the other's pair
C14_RollbackStep ==
    \A t \in Tasks, u \in Tasks :
       (/\ coroutines # << >> /\ t # u
        /\ coroutines[t].pc = "ROLLBACK" /\ coroutines'[t].pc = "done"
        /\ coroutines[t].asset_id # coroutines[u].asset_id)
       => AssetOverrideRows(coroutines[u].scenario_id, coroutines[u].asset_id)
             \subseteq scenario_assets'

\* C14: when two mutating operations run as interleaved coroutines on the
\* process-wide shared connection, each operation's BEGIN and COMMIT or
\* ROLLBACK bracket only its own statements: an operation that reports
\* failure has none of its writes persisted, an operation that reports
\* success has all of its writes persisted, and one operation's ROLLBACK
\* never discards writes of the other.
C14_OwnTransaction == []C14_Outcome /\ [][C14_RollbackStep]_vars

-----------------------------------------------------------------------------
(* BaseCRUD.update and BaseCRUD.create, as the entity classes call them     *)
(* outside any transaction. data is the dict built by the caller: a         *)
(* function from the column names supplied to their values.                 *)

\* the empty dict {}
NoData == [k \in {} |-> NULL]

\* data[key] = value added to the dict when value is not None
With(data, key, value) ==
    IF IsNone(value) THEN data
    ELSE [k \in DOMAIN data \cup {key} |-> IF k = key THEN Val(value) ELSE data[k]]

\* set_clause = ', '.join(...) of an empty dict is '', and
\* "UPDATE t SET  WHERE id = ?" is rejected (near "WHERE": syntax error)
SetClauseEmpty(data) == DOMAIN data = {}

\* UPDATE t SET k = ?, ... WHERE id_field = ?  applied to one row
RowUpdate(row, data) ==
    [k \in DOMAIN row |-> IF k \in DOMAIN data THEN data[k] ELSE row[k]]

\* the table after BaseCRUD.update's UPDATE statement
Update(table, id_field, id, data) ==
    { IF r[id_field] = id THEN RowUpdate(r, data) ELSE r : r \in table }

-----------------------------------------------------------------------------
(* PeopleCRUD.create_person and PeopleCRUD.update_person                    *)

\* (mutant) the age checks without the comparison of the two ages
PersonAgesInvalidPositiveOnly(retirement_age, final_age) ==
    IF retirement_age <= 0 \/ final_age <= 0
      THEN "Retirement age and final age must be positive"
    ELSE ""

\* the two checks create_person and update_person make on the ages
PersonAgesInvalid(retirement_age, final_age) ==
    IF retirement_age <= 0 \/ final_age <= 0
      THEN "Retirement age and final age must be positive"
    ELSE IF retirement_age >= final_age
      THEN "Final age must be greater than retirement age"
    ELSE ""

\* INSERT INTO people (household_id, first_name, last_name, dob,
\* retirement_age, final_age) VALUES (...); dob plays no part in any check
PersonInsert(person_id, household_id, first_name, last_name, retirement_age, final_age) ==
    [person_id |-> person_id, household_id |-> household_id,
     first_name |-> first_name, last_name |-> last_name,
     retirement_age |-> retirement_age, final_age |-> final_age]

create_person(household_id, first_name, last_name, retirement_age, final_age) ==
    LET op == "create_person"
        args == [household_id |-> household_id, first_name |-> first_name,
                 last_name |-> last_name, retirement_age |-> retirement_age,
                 final_age |-> final_age]
        person_id == LastRowId({ p.person_id : p \in people })
        ages_error == PersonAgesInvalid(retirement_age, final_age)
    IN  /\ IF ages_error # ""
             THEN /\ last' = Raised(op, args, ages_error)
                  /\ UNCHANGED people
           ELSE /\ people' = people \cup
                     { PersonInsert(person_id, household_id, first_name,
                                    last_name, retirement_age, final_age) }
                /\ last' = Returned(op, args, person_id)
        /\ UNCHANGED <<plans, base_assumptions, asset_categories, assets,
                       asset_owners, asset_growth_adjustments,
                       liability_categories, liabilities, inflows_outflows,
                       retirement_income_plans, retirement_income_owners,
                       interleaving, scenarios, scenario_assumptions,
                       scenario_growth_adjustments, scenario_person_overrides,
                       scenario_assets, scenario_liabilities,
                       scenario_inflows_outflows, scenario_retirement_income>>

\* BaseCRUD.read on table people
get_person(person_id) ==
    LET rows == { p \in people : p.person_id = person_id }
    IN  IF rows = {} THEN NULL ELSE Some(CHOOSE p \in rows : TRUE)

update_person(person_id, first_name, last_name, retirement_age, final_age) ==
    LET op == "update_person"
        args == [person_id |-> person_id, first_name |-> first_name,
                 last_name |-> last_name, retirement_age |-> retirement_age,
                 final_age |-> final_age]
        current_data == get_person(person_id)
        effective_retirement_age ==
            IF ~IsNone(retirement_age) THEN Val(retirement_age)
            ELSE Val(current_data).retirement_age
        effective_final_age ==
            IF ~IsNone(final_age) THEN Val(final_age)
            ELSE Val(current_data).final_age
        ages_error ==
            IF ~IsNone(retirement_age) \/ ~IsNone(final_age)
              THEN PersonAgesInvalid(effective_retirement_age, effective_final_age)
            ELSE ""
        data == With(With(With(With(NoData, "first_name", first_name),
                               "last_name", last_name),
                          "retirement_age", retirement_age),
                     "final_age", final_age)
        raise(msg) == /\ last' = Raised(op, args, msg)
                      /\ UNCHANGED people
    IN  /\ IF IsNone(current_data)
             THEN /\ last' = Returned(op, args, FALSE)
                  /\ UNCHANGED people
           ELSE IF ages_error # "" THEN raise(ages_error)
           ELSE IF SetClauseEmpty(data) THEN raise("near \"WHERE\": syntax error")
           ELSE /\ people' = Update(people, "person_id", person_id, data)
                /\ last' = Returned(op, args, TRUE)
        /\ UNCHANGED <<plans, base_assumptions, asset_categories, assets,
                       asset_owners, asset_growth_adjustments,
                       liability_categories, liabilities, inflows_outflows,
                       retirement_income_plans, retirement_income_owners,
                       interleaving, scenarios, scenario_assumptions,
                       scenario_growth_adjustments, scenario_person_overrides,
                       scenario_assets, scenario_liabilities,
                       scenario_inflows_outflows, scenario_retirement_income>>

-----------------------------------------------------------------------------
(* People and their age overrides, checked under SpecPeople: persons are    *)
(* created in household 1, person 1 (ages 3 and 5) and an id nobody has are *)
(* updated, and person 1's ages are overridden in scenario 1.               *)

MaxPeople == 4

NewRetirementAges == {0, 4}

NewFinalAges == {3, 6}

UpdatePersonIds == {1, 9}

FirstNames == {NULL, Some("b")}

UpdateRetirementAges == {NULL, Some(0), Some(4), Some(6)}

UpdateFinalAges == {NULL, Some(4), Some(6)}

OverrideRetirementAges == {NULL, Some(4)}

OverrideFinalAges == {NULL, Some(4)}

CreatePersonCall ==
    /\ LastRowId({ p.person_id : p \in people }) <= MaxPeople
    /\ \E r \in NewRetirementAges, f \in NewFinalAges :
          create_person(1, "b", "z", r, f)
    /\ UNCHANGED ncalls

UpdatePersonCall ==
    /\ \E p \in UpdatePersonIds, n \in FirstNames, r \in UpdateRetirementAges, f \in UpdateFinalAges :
          update_person(p, n, NULL, r, f)
    /\ UNCHANGED ncalls

OverridePersonAgesCall ==
    /\ \E r \in OverrideRetirementAges, f \in OverrideFinalAges :
          update_person_overrides(1, 1, r, f)
    /\ UNCHANGED ncalls

NextPeople ==
    \/ CreatePersonCall
    \/ UpdatePersonCall
    \/ OverridePersonAgesCall

SpecPeople == Init /\ [][NextPeople]_vars

AgesOrdered(retirement_age, final_age) ==
    0 < retirement_age /\ retirement_age < final_age

C21_Stored == \A p \in people : AgesOrdered(p.retirement_age, p.final_age)

C21_Step ==
    /\ (last'.op = "create_person"
          /\ ~AgesOrdered(last'.args.retirement_age, last'.args.final_age))
       => (last'.error # "" /\ UNCHANGED tables)
    /\ \A p \in people :
         (last'.op = "update_person" /\ last'.args.person_id = p.person_id)
         => LET retirement_age ==
                    IF IsNone(last'.args.retirement_age) THEN p.retirement_age
                    ELSE Val(last'.args.retirement_age)
                final_age ==
                    IF IsNone(last'.args.final_age) THEN p.final_age
                    ELSE Val(last'.args.final_age)
            IN  ~AgesOrdered(retirement_age, final_age)
                  => (last'.error # "" /\ UNCHANGED tables)

\* C21: after any sequence of create_person and update_person calls every
\* stored person satisfies 0 < retirement_age < final_age; a call whose
\* resulting ages (the supplied value, else the current stored value) would
\* violate this raises a validation error and changes nothing.
C21_PersonAges == []C21_Stored /\ [][C21_Step]_vars

\* C21 witness: person 4 has been created with ages 4 and 6, and the call
\* giving person 1 (ages 3 and 5) the retirement age 6 alone has just been
\* refused; person 1 still has ages 3 and 5.
C21_Witness ==
    /\ Failed("update_person")
    /\ last.error = "Final age must be greater than retirement age"
    /\ last.args.person_id = 1
    /\ last.args.retirement_age = Some(6) /\ IsNone(last.args.final_age)
    /\ \E p \in people :
          p.person_id = 1 /\ p.retirement_age = 3 /\ p.final_age = 5
    /\ \E p \in people :
          p.person_id = 4 /\ p.retirement_age = 4 /\ p.final_age = 6

\* the ages of a person in a scenario: the override where flagged
C26_EffectiveAges ==
    \A s \in scenarios, p \in people :
       LET rows == { r \in scenario_person_overrides :
                       r.scenario_id = s.scenario_id /\ r.person_id = p.person_id }
       IN  /\ rows = {} => AgesOrdered(p.retirement_age, p.final_age)
           /\ \A r \in rows :
                AgesOrdered(IF r.overrides_retirement_age = 1
                              THEN Val(r.retirement_age) ELSE p.retirement_age,
                            IF r.overrides_final_age = 1
                              THEN Val(r.final_age) ELSE p.final_age)

\* C26: in every reachable state, for every scenario and every person the
\* effective ages (override value where the flag is set, base value
\* otherwise) satisfy 0 < retirement age < final age, after any sequence of
\* create_person, update_person and update_person_overrides calls,
\* including override calls that supply only one of the two ages after the
\* other was already overridden and base updates made after an override
\* exists.
C26_EffectiveAgesOrdered == []C26_EffectiveAges

-----------------------------------------------------------------------------
(* Inflows_outflows.py: the base cash flows of a plan.                      *)

\* str.upper() on the type strings the calls pass
Upper(s) ==
    CASE s = "inflow" -> "INFLOW"
      [] s = "outflow" -> "OUTFLOW"
      [] s = "loan" -> "LOAN"
      [] OTHER -> s

InflowOutflowTypeInvalid(type) == type \notin {"INFLOW", "OUTFLOW"}

InflowOutflowInsert(inflow_outflow_id, plan_id, type, annual_amount, start_year, end_year, apply_inflation) ==
    [inflow_outflow_id |-> inflow_outflow_id, plan_id |-> plan_id,
     type |-> type, annual_amount |-> annual_amount,
     start_year |-> start_year, end_year |-> end_year,
     apply_inflation |-> SqlBool(apply_inflation)]

\* SELECT io.*, p.plan_creation_year FROM inflows_outflows io JOIN plans p
get_inflow_outflow(inflow_outflow_id) ==
    LET joined(io) ==
            { [inflow_outflow_id |-> io.inflow_outflow_id,
               plan_id |-> io.plan_id, type |-> io.type,
               annual_amount |-> io.annual_amount,
               start_year |-> io.start_year, end_year |-> io.end_year,
               apply_inflation |-> io.apply_inflation,
               plan_creation_year |-> p.plan_creation_year] :
                  p \in {x \in plans : x.plan_id = io.plan_id} }
        rows == UNION { joined(io) :
                          io \in {x \in inflows_outflows :
                                     x.inflow_outflow_id = inflow_outflow_id} }
    IN  IF rows = {} THEN NULL ELSE Some(CHOOSE r \in rows : TRUE)

\* The body runs inside DatabaseConnection.transaction(), and its last
\* statement, BaseCRUD.create, enters DatabaseConnection.transaction() again
\* on the same connection: that BEGIN is rejected, the inner handler's
\* ROLLBACK ends the outer transaction, and the outer handler's ROLLBACK
\* finds no transaction to roll back.
create_inflow_outflow(plan_id, type, annual_amount, start_year, end_year, apply_inflation) ==
    LET op == "create_inflow_outflow"
        args == [plan_id |-> plan_id, type |-> type,
                 annual_amount |-> annual_amount, start_year |-> start_year,
                 end_year |-> end_year, apply_inflation |-> apply_inflation]
        upper == Upper(type)
        row == {p \in plans : p.plan_id = plan_id}
        plan_creation_year == (CHOOSE p \in row : TRUE).plan_creation_year
        inflow_outflow_id ==
            LastRowId({io.inflow_outflow_id : io \in inflows_outflows})
        opened == [connection EXCEPT !.in_transaction = TRUE]
        raise(msg) == /\ last' = Raised(op, args, msg)
                      /\ UNCHANGED inflows_outflows
    IN  /\ IF InflowOutflowTypeInvalid(upper)
             THEN raise("Type must be either 'INFLOW' or 'OUTFLOW'")
           ELSE IF start_year > end_year
             THEN raise("Start year must be before or equal to end year")
           ELSE IF row = {} THEN raise("Invalid plan_id")
           ELSE IF StartYearInvalid(start_year, plan_creation_year)
             THEN raise("Start year cannot be before plan creation year")
           ELSE IF BeginRejected(opened)
             THEN raise("cannot rollback - no transaction is active")
           ELSE /\ inflows_outflows' = inflows_outflows \cup
                      {InflowOutflowInsert(inflow_outflow_id, plan_id, upper,
                                           annual_amount, start_year, end_year,
                                           apply_inflation)}
                /\ last' = Returned(op, args, inflow_outflow_id)
        /\ UNCHANGED <<people, plans, base_assumptions, asset_categories,
                       assets, asset_owners, asset_growth_adjustments,
                       liability_categories, liabilities,
                       retirement_income_plans, retirement_income_owners,
                       interleaving, scenarios, scenario_assumptions,
                       scenario_growth_adjustments, scenario_person_overrides,
                       scenario_assets, scenario_liabilities,
                       scenario_inflows_outflows, scenario_retirement_income>>

update_inflow_outflow(inflow_outflow_id, type, name, annual_amount, start_year, end_year, apply_inflation) ==
    LET op == "update_inflow_outflow"
        args == [inflow_outflow_id |-> inflow_outflow_id, type |-> type,
                 name |-> name, annual_amount |-> annual_amount,
                 start_year |-> start_year, end_year |-> end_year,
                 apply_inflation |-> apply_inflation]
        current_data == get_inflow_outflow(inflow_outflow_id)
        upper == IF IsNone(type) THEN NULL ELSE Some(Upper(Val(type)))
        effective_start == IF ~IsNone(start_year) THEN Val(start_year)
                           ELSE Val(current_data).start_year
        effective_end == IF ~IsNone(end_year) THEN Val(end_year)
                         ELSE Val(current_data).end_year
        years_supplied == ~IsNone(start_year) \/ ~IsNone(end_year)
        flag == IF IsNone(apply_inflation) THEN NULL
                ELSE Some(SqlBool(Val(apply_inflation)))
        data == With(With(With(With(With(With(NoData, "type", upper),
                                         "name", name),
                                    "annual_amount", annual_amount),
                               "start_year", start_year),
                          "end_year", end_year),
                     "apply_inflation", flag)
        raise(msg) == /\ last' = Raised(op, args, msg)
                      /\ UNCHANGED inflows_outflows
    IN  /\ IF IsNone(current_data)
             THEN /\ last' = Returned(op, args, FALSE)
                  /\ UNCHANGED inflows_outflows
           ELSE IF ~IsNone(upper) /\ InflowOutflowTypeInvalid(Val(upper))
             THEN raise("Type must be either 'INFLOW' or 'OUTFLOW'")
           ELSE IF years_supplied /\ effective_start > effective_end
             THEN raise("Start year must be before or equal to end year")
           ELSE IF years_supplied /\ StartYearInvalid(effective_start, Val(current_data).plan_creation_year)
             THEN raise("Start year cannot be before plan creation year")
           ELSE IF SetClauseEmpty(data)
             THEN /\ last' = Returned(op, args, TRUE)
                  /\ UNCHANGED inflows_outflows
           ELSE /\ inflows_outflows' =
                      Update(inflows_outflows, "inflow_outflow_id",
                             inflow_outflow_id, data)
                /\ last' = Returned(op, args, TRUE)
        /\ UNCHANGED <<people, plans, base_assumptions, asset_categories,
                       assets, asset_owners, asset_growth_adjustments,
                       liability_categories, liabilities,
                       retirement_income_plans, retirement_income_owners,
                       interleaving, scenarios, scenario_assumptions,
                       scenario_growth_adjustments, scenario_person_overrides,
                       scenario_assets, scenario_liabilities,
                       scenario_inflows_outflows, scenario_retirement_income>>

-----------------------------------------------------------------------------
(* plans.py and liabilities.py: updates of a plan and of a liability. Their *)
(* name columns are not carried by the rows, so a supplied name makes the   *)
(* data dict non-empty and an UPDATE that changes no modelled column.       *)

\* SELECT p.*, ... FROM plans p JOIN households h ... JOIN people pe ON
\* p.reference_person_id = pe.person_id; every plan's household exists
get_plan(plan_id) ==
    LET rows == { p \in plans :
                    /\ p.plan_id = plan_id
                    /\ \E pe \in people : pe.person_id = p.reference_person_id }
    IN  IF rows = {} THEN NULL ELSE Some(CHOOSE r \in rows : TRUE)

update_plan(plan_id, plan_name, reference_person_id) ==
    LET op == "update_plan"
        args == [plan_id |-> plan_id, plan_name |-> plan_name,
                 reference_person_id |-> reference_person_id]
        current_plan == get_plan(plan_id)
        in_household ==
            \E pe \in people :
                /\ pe.person_id = Val(reference_person_id)
                /\ pe.household_id = Val(current_plan).household_id
        data == With(With(NoData, "plan_name", plan_name),
                     "reference_person_id", reference_person_id)
    IN  /\ IF IsNone(current_plan)
             THEN /\ last' = Returned(op, args, FALSE)
                  /\ UNCHANGED plans
           ELSE IF ~IsNone(reference_person_id) /\ ~in_household
             THEN /\ last' = Raised(op, args, "Reference person must belong to the household")
                  /\ UNCHANGED plans
           ELSE IF SetClauseEmpty(data)
             THEN /\ last' = Returned(op, args, TRUE)
                  /\ UNCHANGED plans
           ELSE /\ plans' = Update(plans, "plan_id", plan_id, data)
                /\ last' = Returned(op, args, TRUE)
        /\ UNCHANGED <<people, base_assumptions, asset_categories, assets,
                       asset_owners, asset_growth_adjustments,
                       liability_categories, liabilities, inflows_outflows,
                       retirement_income_plans, retirement_income_owners,
                       interleaving, scenarios, scenario_assumptions,
                       scenario_growth_adjustments, scenario_person_overrides,
                       scenario_assets, scenario_liabilities,
                       scenario_inflows_outflows, scenario_retirement_income>>

\* SELECT l.*, lc.category_name FROM liabilities l JOIN liability_categories lc
get_liability(liability_id) ==
    LET rows == { l \in liabilities :
                    /\ l.liability_id = liability_id
                    /\ \E lc \in liability_categories :
                           lc.liability_category_id = l.liability_category_id }
    IN  IF rows = {} THEN NULL ELSE Some(CHOOSE r \in rows : TRUE)

update_liability(liability_id, liability_name, value, interest_rate, include_in_nest_egg) ==
    LET op == "update_liability"
        args == [liability_id |-> liability_id,
                 liability_name |-> liability_name, value |-> value,
                 interest_rate |-> interest_rate,
                 include_in_nest_egg |-> include_in_nest_egg]
        current_liability == get_liability(liability_id)
        flag == IF IsNone(include_in_nest_egg) THEN NULL
                ELSE Some(SqlBool(Val(include_in_nest_egg)))
        data == With(With(With(With(NoData, "liability_name", liability_name),
                               "value", value),
                          "interest_rate", interest_rate),
                     "include_in_nest_egg", flag)
        raise(msg) == /\ last' = Raised(op, args, msg)
                      /\ UNCHANGED liabilities
    IN  /\ IF IsNone(current_liability)
             THEN /\ last' = Returned(op, args, FALSE)
                  /\ UNCHANGED liabilities
           ELSE IF ~IsNone(value) /\ LiabilityValueInvalid(Val(value))
             THEN raise("Liability value cannot be negative")
           ELSE IF ~IsNone(interest_rate) /\ LiabilityInterestRateInvalid(Val(interest_rate))
             THEN raise("Interest rate must be between -200 and 200")
           ELSE IF SetClauseEmpty(data)
             THEN /\ last' = Returned(op, args, TRUE)
                  /\ UNCHANGED liabilities
           ELSE /\ liabilities' = Update(liabilities, "liability_id",
                                         liability_id, data)
                /\ last' = Returned(op, args, TRUE)
        /\ UNCHANGED <<people, plans, base_assumptions, asset_categories,
                       assets, asset_owners, asset_growth_adjustments,
                       liability_categories, inflows_outflows,
                       retirement_income_plans, retirement_income_owners,
                       interleaving, scenarios, scenario_assumptions,
                       scenario_growth_adjustments, scenario_person_overrides,
                       scenario_assets, scenario_liabilities,
                       scenario_inflows_outflows, scenario_retirement_income>>

-----------------------------------------------------------------------------
(* Base cash flows, checked under SpecCashFlows: entries are created for    *)
(* plan 1 (creation year 2) and for a plan nobody has, and entry 1 (years 3 *)
(* to 6) and an id nobody has are updated.                                   *)

CashFlowPlanIds == {1, 9}
CashFlowTypes == {"inflow", "OUTFLOW", "loan"}
CashFlowStartYears == {1, 3}
CashFlowEndYears == {2, 4}
UpdateCashFlowIds == {1, 9}
UpdateCashFlowTypes == {NULL, Some("outflow")}
UpdateCashFlowStartYears == {NULL, Some(1), Some(5)}
UpdateCashFlowEndYears == {NULL, Some(4)}
UpdateCashFlowFlags == {NULL, Some(TRUE)}

CreateInflowOutflowCall ==
    /\ \E plan_id \in CashFlowPlanIds, type \in CashFlowTypes, start_year \in CashFlowStartYears, end_year \in CashFlowEndYears, apply_inflation \in BOOLEAN :
          create_inflow_outflow(plan_id, type, 10, start_year, end_year, apply_inflation)
    /\ UNCHANGED ncalls

UpdateInflowOutflowCall ==
    /\ \E id \in UpdateCashFlowIds, type \in UpdateCashFlowTypes, start_year \in UpdateCashFlowStartYears, end_year \in UpdateCashFlowEndYears, apply_inflation \in UpdateCashFlowFlags :
          update_inflow_outflow(id, type, NULL, NULL, start_year, end_year, apply_inflation)
    /\ UNCHANGED ncalls

NextCashFlows ==
    \/ CreateInflowOutflowCall
    \/ UpdateInflowOutflowCall

SpecCashFlows == Init /\ [][NextCashFlows]_vars

C22_Step ==
    last'.op = "create_inflow_outflow" =>
      LET a == last'.args
          type_ok == Upper(a.type) \in {"INFLOW", "OUTFLOW"}
          years_ok == a.start_year <= a.end_year
          plan == {p \in plans : p.plan_id = a.plan_id}
          valid == /\ type_ok
                   /\ years_ok
                   /\ \E p \in plan : a.start_year >= p.plan_creation_year
          stored == {io \in inflows_outflows' :
                        io.inflow_outflow_id = Val(last'.result)}
      IN  /\ valid =>
                /\ last'.error = ""
                /\ Val(last'.result) \notin
                       {io.inflow_outflow_id : io \in inflows_outflows}
                /\ \E entry \in stored :
                       /\ entry.plan_id = a.plan_id
                       /\ entry.type = Upper(a.type)
                       /\ entry.annual_amount = a.annual_amount
                       /\ entry.start_year = a.start_year
                       /\ entry.end_year = a.end_year
          /\ (~type_ok \/ ~years_ok \/ plan = {}) =>
                /\ last'.error # ""
                /\ UNCHANGED inflows_outflows

\* C22: for an existing plan and valid input, create_inflow_outflow succeeds,
\* returns the id of a new entry, and get_inflow_outflow then returns that
\* entry with the supplied fields; with an invalid type, inverted years or an
\* unknown plan it raises and inserts nothing.
C22_CreateInflowOutflow == [][C22_Step]_vars

-----------------------------------------------------------------------------
(* The four base updates, checked under SpecUpdates: person 1, plan 1,      *)
(* liability 1 and cash flow 1, and an id nobody has, are updated with each *)
(* field supplied or left out.                                               *)

UpdateIds == {1, 9}
UpdateNames == {NULL, Some("b")}
UpdateAges == {NULL, Some(4)}
UpdateReferencePersonIds == {NULL, Some(1), Some(3)}
UpdateValues == {NULL, Some(150)}
UpdateInterestRates == {NULL, Some(250)}
UpdateAmounts == {NULL, Some(10)}
UpdateEndYears == {NULL, Some(2)}

UpdatesPersonCall ==
    /\ \E id \in UpdateIds, first_name \in UpdateNames, retirement_age \in UpdateAges :
          update_person(id, first_name, NULL, retirement_age, NULL)
    /\ UNCHANGED ncalls

UpdatesPlanCall ==
    /\ \E id \in UpdateIds, plan_name \in UpdateNames, reference_person_id \in UpdateReferencePersonIds :
          update_plan(id, plan_name, reference_person_id)
    /\ UNCHANGED ncalls

UpdatesLiabilityCall ==
    /\ \E id \in UpdateIds, liability_name \in UpdateNames, value \in UpdateValues, interest_rate \in UpdateInterestRates :
          update_liability(id, liability_name, value, interest_rate, NULL)
    /\ UNCHANGED ncalls

UpdatesInflowOutflowCall ==
    /\ \E id \in UpdateIds, name \in UpdateNames, annual_amount \in UpdateAmounts, end_year \in UpdateEndYears :
          update_inflow_outflow(id, NULL, name, annual_amount, NULL, end_year, NULL)
    /\ UNCHANGED ncalls

NextUpdates ==
    \/ UpdatesPersonCall
    \/ UpdatesPlanCall
    \/ UpdatesLiabilityCall
    \/ UpdatesInflowOutflowCall

SpecUpdates == Init /\ [][NextUpdates]_vars

NoFieldSupplied(args, id_field) ==
    \A k \in DOMAIN args \ {id_field} : IsNone(args[k])

C30_Step ==
    /\ (/\ last'.op = "update_person"
        /\ \E p \in people : p.person_id = last'.args.person_id
        /\ NoFieldSupplied(last'.args, "person_id"))
       => (last'.error = "" /\ last'.result = Some(TRUE) /\ UNCHANGED tables)
    /\ (/\ last'.op = "update_plan"
        /\ \E p \in plans : p.plan_id = last'.args.plan_id
        /\ NoFieldSupplied(last'.args, "plan_id"))
       => (last'.error = "" /\ last'.result = Some(TRUE) /\ UNCHANGED tables)
    /\ (/\ last'.op = "update_liability"
        /\ \E l \in liabilities : l.liability_id = last'.args.liability_id
        /\ NoFieldSupplied(last'.args, "liability_id"))
       => (last'.error = "" /\ last'.result = Some(TRUE) /\ UNCHANGED tables)
    /\ (/\ last'.op = "update_inflow_outflow"
        /\ \E io \in inflows_outflows :
               io.inflow_outflow_id = last'.args.inflow_outflow_id
        /\ NoFieldSupplied(last'.args, "inflow_outflow_id"))
       => (last'.error = "" /\ last'.result = Some(TRUE) /\ UNCHANGED tables)

\* C30: update_person, update_plan, update_liability and
\* update_inflow_outflow, called for an existing record with no field
\* supplied, return True, leave the record unchanged and raise nothing.
C30_EmptyUpdate == [][C30_Step]_vars

-----------------------------------------------------------------------------
(* retirement_income.py: reading and updating a base retirement income      *)
(* plan. A parameter left at its default and one passed as None are the     *)
(* same call, so NULL stands for both.                                       *)

\* SELECT rip.*, GROUP_CONCAT(p.person_id) as owner_ids ... LEFT JOIN ...
\* GROUP BY rip.income_plan_id; owner_ids is read as the set of ids
get_retirement_income(income_plan_id) ==
    LET rows == { rip \in retirement_income_plans :
                    rip.income_plan_id = income_plan_id }
        owner_ids == { rio.person_id :
                         rio \in { x \in retirement_income_owners :
                                     /\ x.income_plan_id = income_plan_id
                                     /\ \E p \in people :
                                            p.person_id = x.person_id } }
    IN  IF rows = {} THEN NULL
        ELSE Some([row |-> CHOOSE r \in rows : TRUE, owner_ids |-> owner_ids])

\* SELECT p.household_id FROM retirement_income_plans rip JOIN plans p
IncomePlanHousehold(income_plan_id) ==
    UNION { { p.household_id : p \in {x \in plans : x.plan_id = rip.plan_id} } :
              rip \in { x \in retirement_income_plans :
                          x.income_plan_id = income_plan_id } }

IncomeOwnersDelete(table, income_plan_id) ==
    { rio \in table : rio.income_plan_id # income_plan_id }

IncomeOwnersInsert(income_plan_id, owner_ids) ==
    { [income_plan_id |-> income_plan_id, person_id |-> owner_ids[i]] :
        i \in 1..Len(owner_ids) }

update_retirement_income(income_plan_id, name, annual_income, start_age, end_age, owner_ids, apply_inflation, include_in_nest_egg) ==
    LET op == "update_retirement_income"
        args == [income_plan_id |-> income_plan_id, name |-> name,
                 annual_income |-> annual_income, start_age |-> start_age,
                 end_age |-> end_age, owner_ids |-> owner_ids,
                 apply_inflation |-> apply_inflation,
                 include_in_nest_egg |-> include_in_nest_egg]
        current_plan == get_retirement_income(income_plan_id)
        effective_start == IF ~IsNone(start_age) THEN Val(start_age)
                           ELSE Val(current_plan).row.start_age
        effective_end == IF ~IsNone(end_age) THEN end_age
                         ELSE Val(current_plan).row.end_age
        flag(b) == IF IsNone(b) THEN NULL ELSE Some(SqlBool(Val(b)))
        updates ==
            With(With(With(With(With(With(NoData, "name", name),
                                     "annual_income", annual_income),
                                "start_age", start_age),
                           "end_age", IF IsNone(end_age) THEN NULL
                                      ELSE Some(end_age)),
                      "apply_inflation", flag(apply_inflation)),
                 "include_in_nest_egg", flag(include_in_nest_egg))
        written == IF SetClauseEmpty(updates) THEN retirement_income_plans
                   ELSE Update(retirement_income_plans, "income_plan_id",
                               income_plan_id, updates)
        refuse(msg) == /\ last' = Raised(op, args, msg)
                       /\ UNCHANGED <<retirement_income_plans,
                                      retirement_income_owners>>
        raise(msg) ==
            /\ last' = Raised(op, args, msg)
            /\ retirement_income_plans' =
                   Rollback(retirement_income_plans, written)
            /\ retirement_income_owners' =
                   Rollback(retirement_income_owners, retirement_income_owners)
    IN  /\ IF IsNone(current_plan)
             THEN /\ last' = Returned(op, args, FALSE)
                  /\ UNCHANGED <<retirement_income_plans,
                                 retirement_income_owners>>
           ELSE IF ~IsNone(annual_income) /\ AnnualIncomeInvalid(Val(annual_income))
             THEN refuse("Annual income cannot be negative")
           ELSE IF ~IsNone(effective_end) /\ effective_start > Val(effective_end)
             THEN refuse("Start age must be before or equal to end age")
           ELSE IF IsNone(owner_ids)
             THEN /\ retirement_income_plans' = written
                  /\ UNCHANGED retirement_income_owners
                  /\ last' = Returned(op, args, TRUE)
           ELSE IF Val(owner_ids) = << >>
             THEN raise("At least one owner must be specified")
           ELSE IF \E h \in IncomePlanHousehold(income_plan_id) :
                      OwnersNotInHousehold(Val(owner_ids), h)
             THEN raise("All owners must belong to the household")
           ELSE /\ retirement_income_plans' = written
                /\ retirement_income_owners' =
                       IncomeOwnersDelete(retirement_income_owners,
                                          income_plan_id)
                         \cup IncomeOwnersInsert(income_plan_id, Val(owner_ids))
                /\ last' = Returned(op, args, TRUE)
        /\ UNCHANGED <<people, plans, base_assumptions, asset_categories,
                       assets, asset_owners, asset_growth_adjustments,
                       liability_categories, liabilities, inflows_outflows,
                       interleaving, scenarios, scenario_assumptions,
                       scenario_growth_adjustments, scenario_person_overrides,
                       scenario_assets, scenario_liabilities,
                       scenario_inflows_outflows, scenario_retirement_income>>

-----------------------------------------------------------------------------
(* Base retirement income, checked under SpecIncome: income plan 1 (ages 3  *)
(* to 5, owner 1), income plan 2 (from age 3 for life, owner 2), both of    *)
(* plan 1 in household 1, and an id nobody has are updated.                  *)

IncomePlanIds == {1, 2, 9}
IncomeAmounts == {NULL, Some(40)}
IncomeStartAges == {NULL, Some(6)}
IncomeEndAges == {NULL, Some(7)}
IncomeOwners == {NULL, Some(<< >>), Some(<<1, 2>>), Some(<<3>>)}

UpdateRetirementIncomeCall ==
    /\ \E id \in IncomePlanIds, annual_income \in IncomeAmounts, start_age \in IncomeStartAges, end_age \in IncomeEndAges, owner_ids \in IncomeOwners :
          update_retirement_income(id, NULL, annual_income, start_age, end_age, owner_ids, NULL, NULL)
    /\ UNCHANGED ncalls

NextIncome ==
    \/ UpdateRetirementIncomeCall

SpecIncome == Init /\ [][NextIncome]_vars

C23_Step ==
    LET a == last'.args
        stored == { rip \in retirement_income_plans' :
                      rip.income_plan_id = a.income_plan_id }
        owners == { rio.person_id :
                      rio \in { x \in retirement_income_owners' :
                                  x.income_plan_id = a.income_plan_id } }
    IN  (/\ last'.op = "update_retirement_income"
         /\ last'.error = ""
         /\ last'.result = Some(TRUE)
         /\ IsNone(a.end_age)
         /\ \E k \in DOMAIN a \ {"income_plan_id", "end_age"} : ~IsNone(a[k]))
        => /\ \A rip \in stored :
                /\ IsNone(rip.end_age)
                /\ ~IsNone(a.annual_income)
                     => rip.annual_income = Val(a.annual_income)
                /\ ~IsNone(a.start_age) => rip.start_age = Val(a.start_age)
                /\ ~IsNone(a.apply_inflation)
                     => rip.apply_inflation = SqlBool(Val(a.apply_inflation))
           /\ ~IsNone(a.owner_ids) => owners = Range(Val(a.owner_ids))

\* C23: update_retirement_income called with end_age=None together with
\* other fields turns the plan into a lifetime benefit: afterwards
\* get_retirement_income returns end_age None, and the other supplied fields
\* and the owner set hold the supplied values.
C23_LifetimeBenefit == [][C23_Step]_vars

-----------------------------------------------------------------------------
(* One call at a time, statement by statement, checked under                *)
(* SpecStatements: create_plan, create_person and create_inflow_outflow run *)
(* to completion one after the other on the pooled connection. The          *)
(* coroutine records what it has issued; handlers counts the transaction()  *)
(* blocks it has entered and not left, each of which runs ROLLBACK when an  *)
(* exception passes through it.                                              *)

Entered(op, args, pc) ==
    [op |-> op, args |-> args, pc |-> pc, error |-> "", result |-> NULL,
     issued |-> << >>, handlers |-> 0]

\* what a ROLLBACK restores: the tables these three operations write
Snapshot ==
    [people |-> people, plans |-> plans,
     base_assumptions |-> base_assumptions,
     inflows_outflows |-> inflows_outflows]

unwritten == <<asset_categories, assets, asset_owners, asset_growth_adjustments, liability_categories, liabilities, retirement_income_plans, retirement_income_owners, scenarios, scenario_assumptions, scenario_growth_adjustments, scenario_person_overrides, scenario_assets, scenario_liabilities, scenario_inflows_outflows, scenario_retirement_income>>

StatementPlanReferencePersonIds == {1, 3}
StatementPlanBaseAssumptions == {NULL, Some([nest_egg_growth_rate |-> NULL, inflation_rate |-> Some(4), annual_retirement_spending |-> NULL])}
StatementRetirementAges == {0, 4}
StatementCashFlowPlanIds == {1, 9}
StatementCashFlowTypes == {"inflow", "loan"}

CallCreatePlan ==
    /\ coroutines = << >>
    /\ LastRowId({ p.plan_id : p \in plans }) <= MaxPlans
    /\ \E r \in StatementPlanReferencePersonIds, b \in StatementPlanBaseAssumptions :
          coroutines' =
            << Entered("create_plan",
                       [household_id |-> 1, reference_person_id |-> r,
                        plan_creation_year |-> NULL, base_assumptions |-> b],
                       "BEGIN") >>
    /\ UNCHANGED <<connection, tables, last, ncalls, pool>>

CallCreatePerson ==
    /\ coroutines = << >>
    /\ LastRowId({ p.person_id : p \in people }) <= MaxPeople
    /\ \E r \in StatementRetirementAges :
          coroutines' =
            << Entered("create_person",
                       [household_id |-> 1, first_name |-> "b",
                        last_name |-> "z", retirement_age |-> r,
                        final_age |-> 6],
                       "check") >>
    /\ UNCHANGED <<connection, tables, last, ncalls, pool>>

CallCreateInflowOutflow ==
    /\ coroutines = << >>
    /\ \E p \in StatementCashFlowPlanIds, type \in StatementCashFlowTypes :
          coroutines' =
            << Entered("create_inflow_outflow",
                       [plan_id |-> p, type |-> type, annual_amount |-> 10,
                        start_year |-> 3, end_year |-> 4,
                        apply_inflation |-> FALSE],
                       "check") >>
    /\ UNCHANGED <<connection, tables, last, ncalls, pool>>

Running(op, pc) == At(1, pc) /\ coroutines[1].op = op

\* an exception raised outside every transaction() block
RaiseOutside(msg) ==
    coroutines' = [coroutines EXCEPT ![1].pc = "done", ![1].error = msg]

Issue(statement, pc) ==
    coroutines' = [coroutines EXCEPT
                     ![1].issued = Append(@, statement), ![1].pc = pc]

\* the statement after "yield conn"
AfterBegin(c) ==
    CASE c.pc = "create.BEGIN" -> "create.INSERT"
      [] c.op = "create_plan" -> "select_person"
      [] OTHER -> "select_plan"

\* conn = await cls.get_connection(); try: await conn.execute("BEGIN")
TransactionBegin ==
    /\ At(1, "BEGIN") \/ At(1, "create.BEGIN")
    /\ LET c == coroutines[1]
       IN  IF BeginRejected(connection)
             THEN /\ coroutines' =
                       [coroutines EXCEPT
                          ![1].issued = Append(@, "BEGIN"),
                          ![1].handlers = @ + 1,
                          ![1].pc = "ROLLBACK",
                          ![1].error = "cannot start a transaction within a transaction"]
                  /\ UNCHANGED connection
           ELSE /\ coroutines' =
                       [coroutines EXCEPT
                          ![1].issued = Append(@, "BEGIN"),
                          ![1].handlers = @ + 1,
                          ![1].pc = AfterBegin(c)]
                /\ connection' = [in_transaction |-> TRUE,
                                  journal |-> Snapshot]
    /\ UNCHANGED <<tables, last, ncalls, pool>>

\* await conn.execute("COMMIT") after the block; the outer block of
\* create_inflow_outflow continues after BaseCRUD.create's
TransactionCommit ==
    /\ At(1, "COMMIT") \/ At(1, "create.COMMIT")
    /\ LET c == coroutines[1]
       IN  IF connection.in_transaction
             THEN /\ connection' = [in_transaction |-> FALSE, journal |-> {}]
                  /\ coroutines' =
                       [coroutines EXCEPT
                          ![1].issued = Append(@, "COMMIT"),
                          ![1].handlers = @ - 1,
                          ![1].pc = IF c.handlers > 1 THEN "COMMIT" ELSE "done"]
           ELSE /\ coroutines' =
                       [coroutines EXCEPT
                          ![1].issued = Append(@, "COMMIT"),
                          ![1].pc = "ROLLBACK",
                          ![1].error = "cannot commit - no transaction is active"]
                /\ UNCHANGED connection
    /\ UNCHANGED <<tables, last, ncalls, pool>>

\* except Exception: await conn.execute("ROLLBACK"); raise. The exception
\* goes on to the enclosing transaction() block, if there is one, whose
\* handler issues ROLLBACK again.
TransactionRollback ==
    /\ At(1, "ROLLBACK")
    /\ LET c == coroutines[1]
           pc == IF c.handlers > 1 THEN "ROLLBACK" ELSE "done"
       IN  IF connection.in_transaction
             THEN /\ people' = connection.journal.people
                  /\ plans' = connection.journal.plans
                  /\ base_assumptions' = connection.journal.base_assumptions
                  /\ inflows_outflows' = connection.journal.inflows_outflows
                  /\ connection' = [in_transaction |-> FALSE, journal |-> {}]
                  /\ coroutines' =
                       [coroutines EXCEPT
                          ![1].issued = Append(@, "ROLLBACK"),
                          ![1].handlers = @ - 1, ![1].pc = pc]
           ELSE /\ coroutines' =
                       [coroutines EXCEPT
                          ![1].issued = Append(@, "ROLLBACK"),
                          ![1].handlers = @ - 1, ![1].pc = pc,
                          ![1].error = "cannot rollback - no transaction is active"]
                /\ UNCHANGED <<people, plans, base_assumptions,
                               inflows_outflows, connection>>
    /\ UNCHANGED <<unwritten, last, ncalls, pool>>

\* plans.py: SELECT 1 FROM people WHERE person_id = ? AND household_id = ?
CreatePlanSelect ==
    /\ Running("create_plan", "select_person")
    /\ LET a == coroutines[1].args
       IN  IF ~ReferencePersonInHousehold(a.reference_person_id, a.household_id)
             THEN Raise(1, "Reference person must belong to the household")
           ELSE Goto(1, "insert_plan")
    /\ UNCHANGED <<connection, tables, last, ncalls, pool>>

\* plans.py: INSERT INTO plans ...; plan_id = cursor.lastrowid
CreatePlanInsert ==
    /\ Running("create_plan", "insert_plan")
    /\ LET a == coroutines[1].args
           plan_id == LastRowId({ p.plan_id : p \in plans })
       IN  /\ plans' = plans \cup
                 { PlanInsert(plan_id, a.household_id, a.reference_person_id,
                              a.plan_creation_year) }
           /\ coroutines' =
                 [coroutines EXCEPT ![1].issued = Append(@, "INSERT"),
                                    ![1].result = Some(plan_id),
                                    ![1].pc = "assumptions"]
    /\ UNCHANGED <<people, base_assumptions, inflows_outflows, unwritten,
                   connection, last, ncalls, pool>>

\* plans.py: if "inflation_rate" not in assumptions: raise ValueError
CreatePlanAssumptionsCheck ==
    /\ Running("create_plan", "assumptions")
    /\ IF InflationRateMissing(coroutines[1].args.base_assumptions)
         THEN Raise(1, "inflation_rate is required in base assumptions")
       ELSE Goto(1, "insert_assumptions")
    /\ UNCHANGED <<connection, tables, last, ncalls, pool>>

\* plans.py: INSERT INTO base_assumptions ...
CreatePlanAssumptionsInsert ==
    /\ Running("create_plan", "insert_assumptions")
    /\ LET c == coroutines[1]
       IN  base_assumptions' = base_assumptions \cup
             { BaseAssumptionsInsert(Val(c.result), c.args.base_assumptions) }
    /\ Issue("INSERT", "COMMIT")
    /\ UNCHANGED <<people, plans, inflows_outflows, unwritten, connection,
                   last, ncalls, pool>>

\* people.py: the checks of create_person, before self.create(data)
CreatePersonCheck ==
    /\ Running("create_person", "check")
    /\ LET a == coroutines[1].args
           ages_error == PersonAgesInvalid(a.retirement_age, a.final_age)
       IN  IF ages_error # "" THEN RaiseOutside(ages_error)
           ELSE Goto(1, "create.BEGIN")
    /\ UNCHANGED <<connection, tables, last, ncalls, pool>>

\* Inflows_outflows.py: the checks before the transaction() block
CreateInflowOutflowCheck ==
    /\ Running("create_inflow_outflow", "check")
    /\ LET a == coroutines[1].args
       IN  IF InflowOutflowTypeInvalid(Upper(a.type))
             THEN RaiseOutside("Type must be either 'INFLOW' or 'OUTFLOW'")
           ELSE IF a.start_year > a.end_year
             THEN RaiseOutside("Start year must be before or equal to end year")
           ELSE Goto(1, "BEGIN")
    /\ UNCHANGED <<connection, tables, last, ncalls, pool>>

\* Inflows_outflows.py: SELECT plan_creation_year FROM plans WHERE plan_id = ?
\* and the two checks on it; then self.create(data)
CreateInflowOutflowSelect ==
    /\ Running("create_inflow_outflow", "select_plan")
    /\ LET a == coroutines[1].args
           row == {p \in plans : p.plan_id = a.plan_id}
       IN  IF row = {} THEN Raise(1, "Invalid plan_id")
           ELSE IF \E p \in row : StartYearInvalid(a.start_year, p.plan_creation_year)
             THEN Raise(1, "Start year cannot be before plan creation year")
           ELSE Goto(1, "create.BEGIN")
    /\ UNCHANGED <<connection, tables, last, ncalls, pool>>

\* base_crud.py: cursor = await conn.execute(query, values);
\* return cursor.lastrowid
CreateInsert ==
    /\ At(1, "create.INSERT")
    /\ LET c == coroutines[1]
           a == c.args
           person_id == LastRowId({ p.person_id : p \in people })
           inflow_outflow_id ==
               LastRowId({ io.inflow_outflow_id : io \in inflows_outflows })
       IN  IF c.op = "create_person"
             THEN /\ people' = people \cup
                       { PersonInsert(person_id, a.household_id, a.first_name,
                                      a.last_name, a.retirement_age,
                                      a.final_age) }
                  /\ UNCHANGED inflows_outflows
                  /\ coroutines' =
                       [coroutines EXCEPT ![1].issued = Append(@, "INSERT"),
                                          ![1].result = Some(person_id),
                                          ![1].pc = "create.COMMIT"]
           ELSE /\ inflows_outflows' = inflows_outflows \cup
                       { InflowOutflowInsert(inflow_outflow_id, a.plan_id,
                                             Upper(a.type), a.annual_amount,
                                             a.start_year, a.end_year,
                                             a.apply_inflation) }
                /\ UNCHANGED people
                /\ coroutines' =
                       [coroutines EXCEPT ![1].issued = Append(@, "INSERT"),
                                          ![1].result = Some(inflow_outflow_id),
                                          ![1].pc = "create.COMMIT"]
    /\ UNCHANGED <<plans, base_assumptions, unwritten, connection, last,
                   ncalls, pool>>

\* the call returns its result or raises its exception to the caller
ReturnCall ==
    /\ At(1, "done")
    /\ LET c == coroutines[1]
       IN  last' = IF c.error = "" THEN Returned(c.op, c.args, Val(c.result))
                   ELSE Raised(c.op, c.args, c.error)
    /\ coroutines' = << >>
    /\ UNCHANGED <<connection, tables, ncalls, pool>>

NextStatements ==
    \/ CallCreatePlan
    \/ CallCreatePerson
    \/ CallCreateInflowOutflow
    \/ TransactionBegin
    \/ TransactionCommit
    \/ TransactionRollback
    \/ CreatePlanSelect
    \/ CreatePlanInsert
    \/ CreatePlanAssumptionsCheck
    \/ CreatePlanAssumptionsInsert
    \/ CreatePersonCheck
    \/ CreateInflowOutflowCheck
    \/ CreateInflowOutflowSelect
    \/ CreateInsert
    \/ ReturnCall

SpecStatements == Init /\ [][NextStatements]_vars

\* the positions at which a validation check is made
ValidationPcs == {"check", "select_person", "select_plan", "assumptions"}

WritesIssued(issued) == Range(issued) \cap {"INSERT", "UPDATE", "DELETE"}

\* C24: in every mutating operation no INSERT, UPDATE or DELETE statement is
\* issued before all of the operation's validation checks have passed: a call
\* standing at one of its checks has issued no write.
C24_ChecksBeforeWrites ==
    \A t \in DOMAIN coroutines :
        coroutines[t].pc \in ValidationPcs
          => WritesIssued(coroutines[t].issued) = {}

RECURSIVE Bracketed(_)
Bracketed(statements) ==
    \/ statements = << >>
    \/ /\ Len(statements) >= 2
       /\ statements[1] = "BEGIN"
       /\ statements[2] \in {"COMMIT", "ROLLBACK"}
       /\ Bracketed(SubSeq(statements, 3, Len(statements)))

TransactionStatements(issued) ==
    SelectSeq(issued, LAMBDA s : s \in {"BEGIN", "COMMIT", "ROLLBACK"})

\* C25: with operations run one at a time, every BEGIN is followed by
\* exactly one COMMIT or ROLLBACK before the operation returns or raises, no
\* BEGIN is issued while a transaction is open, and no transaction is left
\* open when an operation has finished.
C25_TransactionsBracketed ==
    \A t \in DOMAIN coroutines :
        /\ coroutines[t].pc \in {"BEGIN", "create.BEGIN"}
             => ~connection.in_transaction
        /\ coroutines[t].pc = "done"
             => /\ ~connection.in_transaction
                /\ Bracketed(TransactionStatements(coroutines[t].issued))

-----------------------------------------------------------------------------
(* connection.py: get_connection and close_connection, two coroutines at a  *)
(* time, checked under SpecPool. A coroutine gives up control at each       *)
(* await and nowhere else: between the test of the slot and the end of      *)
(* aiosqlite.connect, during the PRAGMA, and during close().                *)

MaxConnections == 3

PoolOps == {"get_connection", "close_connection"}

\* a call that has not run yet; slot_at_call and opened_at_call record the
\* pool as the caller found it, conn the connection close() was called on
PoolCalled(op) ==
    [op |-> op, pc |-> "test", conn |-> NULL, result |-> NULL, error |-> "",
     slot_at_call |-> pool.slot, opened_at_call |-> pool.opened]

StartPoolCalls ==
    /\ coroutines = << >>
    /\ Cardinality(pool.opened) < MaxConnections
    /\ \E op1 \in PoolOps, op2 \in PoolOps :
          coroutines' = << PoolCalled(op1), PoolCalled(op2) >>
    /\ UNCHANGED <<connection, tables, last, ncalls, pool>>

PoolAt(t, op, pc) ==
    /\ t \in DOMAIN coroutines
    /\ coroutines[t].op = op
    /\ coroutines[t].pc = pc

\* if cls._connection_pool is None: ... await aiosqlite.connect(...) is
\* entered; otherwise return cls._connection_pool
GetConnectionTest ==
    \E t \in Tasks :
      /\ PoolAt(t, "get_connection", "test")
      /\ IF IsNone(pool.slot)
           THEN coroutines' = [coroutines EXCEPT ![t].pc = "connect"]
         ELSE coroutines' = [coroutines EXCEPT ![t].pc = "done",
                                               ![t].result = pool.slot]
      /\ UNCHANGED <<connection, tables, last, ncalls, pool>>

\* cls._connection_pool = <the connection aiosqlite.connect returned>;
\* await cls._connection_pool.execute("PRAGMA foreign_keys = ON") is entered
GetConnectionConnect ==
    \E t \in Tasks :
      /\ PoolAt(t, "get_connection", "connect")
      /\ LET opened == Cardinality(pool.opened) + 1
         IN  /\ pool' = [pool EXCEPT !.slot = Some(opened),
                                     !.opened = @ \cup {opened}]
             /\ coroutines' = [coroutines EXCEPT ![t].pc = "pragma"]
      /\ UNCHANGED <<connection, tables, last, ncalls>>

\* cls._connection_pool.row_factory = aiosqlite.Row;
\* return cls._connection_pool. With the slot emptied meanwhile the
\* assignment fails, and the handler raises ConnectionError.
GetConnectionPragma ==
    \E t \in Tasks :
      /\ PoolAt(t, "get_connection", "pragma")
      /\ IF IsNone(pool.slot)
           THEN coroutines' =
                  [coroutines EXCEPT ![t].pc = "done",
                                     ![t].error = "Database connection failed"]
         ELSE coroutines' = [coroutines EXCEPT ![t].pc = "done",
                                               ![t].result = pool.slot]
      /\ UNCHANGED <<connection, tables, last, ncalls, pool>>

\* if cls._connection_pool is not None: await cls._connection_pool.close()
\* is entered on the connection now in the slot
CloseConnectionTest ==
    \E t \in Tasks :
      /\ PoolAt(t, "close_connection", "test")
      /\ IF IsNone(pool.slot)
           THEN coroutines' = [coroutines EXCEPT ![t].pc = "done"]
         ELSE coroutines' = [coroutines EXCEPT ![t].pc = "close",
                                               ![t].conn = pool.slot]
      /\ UNCHANGED <<connection, tables, last, ncalls, pool>>

\* close() has ended; cls._connection_pool = None
CloseConnectionClose ==
    \E t \in Tasks :
      /\ PoolAt(t, "close_connection", "close")
      /\ pool' = [pool EXCEPT !.slot = NULL,
                              !.closed = @ \cup {Val(coroutines[t].conn)}]
      /\ coroutines' = [coroutines EXCEPT ![t].pc = "done"]
      /\ UNCHANGED <<connection, tables, last, ncalls>>

\* both calls have returned or raised
ReturnPoolCalls ==
    /\ coroutines # << >>
    /\ \A t \in Tasks : coroutines[t].pc = "done"
    /\ coroutines' = << >>
    /\ UNCHANGED <<connection, tables, last, ncalls, pool>>

NextPool ==
    \/ StartPoolCalls
    \/ GetConnectionTest
    \/ GetConnectionConnect
    \/ GetConnectionPragma
    \/ CloseConnectionTest
    \/ CloseConnectionClose
    \/ ReturnPoolCalls

SpecPool == Init /\ [][NextPool]_vars

C29_Callers ==
    (/\ coroutines # << >>
     /\ \A t \in Tasks : /\ coroutines[t].op = "get_connection"
                         /\ coroutines[t].pc = "done"
                         /\ IsNone(coroutines[t].slot_at_call))
    => /\ Cardinality(pool.opened \ coroutines[1].opened_at_call) = 1
       /\ \A t \in Tasks : coroutines[t].error = ""
       /\ coroutines[1].result = coroutines[2].result

C29_Slot ==
    (~IsNone(pool.slot) /\ pool'.slot # pool.slot)
      => Val(pool.slot) \in pool'.closed

\* C29: when several coroutines call get_connection concurrently while no
\* connection exists, exactly one connection is opened and every caller
\* receives that same connection; no opened connection is ever replaced in
\* the class slot without being closed.
C29_OneConnection == []C29_Callers /\ [][C29_Slot]_vars

-----------------------------------------------------------------------------
(* Overrides of two scenarios side by side, checked under SpecIsolation:    *)
(* scenario 1 (plan 1) receives overrides of every kind, scenario 2 (plan   *)
(* 2) asset overrides, and both receive assumption overrides, each call     *)
(* supplying some of its fields.                                             *)

MaxOverrideRows == 2

IsolationAssetPairs == { <<1, 1>>, <<2, 3>> }
IsolationAssetValues == {NULL, Some(150)}
IsolationAssetRates == {NULL, Some(8)}
IsolationScenarioIds == {1, 2}
IsolationAssumptions == { Some([nest_egg_growth_rate |-> Some(5), inflation_rate |-> NULL, annual_retirement_spending |-> NULL]), Some([nest_egg_growth_rate |-> NULL, inflation_rate |-> Some(4), annual_retirement_spending |-> NULL]) }

OverrideRowCount ==
    Cardinality(scenario_assumptions) + Cardinality(scenario_person_overrides)
      + Cardinality(scenario_assets) + Cardinality(scenario_liabilities)
      + Cardinality(scenario_inflows_outflows)
      + Cardinality(scenario_retirement_income)

IsolationAssetCall ==
    /\ OverrideRowCount <= MaxOverrideRows
    /\ \E p \in IsolationAssetPairs, value \in IsolationAssetValues, rate \in IsolationAssetRates :
          override_asset(p[1], p[2], value, rate, NULL, FALSE)
    /\ UNCHANGED ncalls

IsolationLiabilityCall ==
    /\ OverrideRowCount <= MaxOverrideRows
    /\ override_liability(1, 1, Some(200), NULL, NULL, FALSE)
    /\ UNCHANGED ncalls

IsolationInflowOutflowCall ==
    /\ OverrideRowCount <= MaxOverrideRows
    /\ override_inflow_outflow(1, 1, Some(80), NULL, NULL, NULL, FALSE)
    /\ UNCHANGED ncalls

IsolationRetirementIncomeCall ==
    /\ OverrideRowCount <= MaxOverrideRows
    /\ override_retirement_income(1, 1, Some(55), NULL, NULL, NULL, NULL, FALSE)
    /\ UNCHANGED ncalls

IsolationPersonCall ==
    /\ OverrideRowCount <= MaxOverrideRows
    /\ update_person_overrides(1, 1, Some(4), NULL)
    /\ UNCHANGED ncalls

IsolationScenarioCall ==
    /\ OverrideRowCount <= MaxOverrideRows
    /\ \E s \in IsolationScenarioIds, o \in IsolationAssumptions :
          update_scenario(s, NULL, o)
    /\ UNCHANGED ncalls

NextIsolation ==
    \/ IsolationAssetCall
    \/ IsolationLiabilityCall
    \/ IsolationInflowOutflowCall
    \/ IsolationRetirementIncomeCall
    \/ IsolationPersonCall
    \/ IsolationScenarioCall

SpecIsolation == Init /\ [][NextIsolation]_vars

ScenarioWriters ==
    {"override_asset", "override_liability", "override_inflow_outflow",
     "override_retirement_income", "update_person_overrides",
     "update_scenario"}

OthersUntouched(before, after, scenario_id) ==
    { r \in after : r.scenario_id # scenario_id }
      = { r \in before : r.scenario_id # scenario_id }

C27_Step ==
    last'.op \in ScenarioWriters =>
      LET s == last'.args.scenario_id
      IN  /\ OthersUntouched(scenario_assumptions, scenario_assumptions', s)
          /\ OthersUntouched(scenario_person_overrides, scenario_person_overrides', s)
          /\ OthersUntouched(scenario_assets, scenario_assets', s)
          /\ OthersUntouched(scenario_liabilities, scenario_liabilities', s)
          /\ OthersUntouched(scenario_inflows_outflows, scenario_inflows_outflows', s)
          /\ OthersUntouched(scenario_retirement_income, scenario_retirement_income', s)
          /\ OthersUntouched(scenario_growth_adjustments, scenario_growth_adjustments', s)
          /\ UNCHANGED base_tables

\* C27: an override call or update_scenario made for scenario s changes no
\* override or assumption row of any other scenario and no base record.
C27_OtherScenariosUntouched == [][C27_Step]_vars

\* C27 witness: scenario 1 holds an inflation override of 4; scenario 2's
\* assumptions were inserted and then updated, the last call being its
\* update_scenario, and hold growth 5 and inflation 4; the base tables are
\* as they were.
C27_Witness ==
    /\ last.op = "update_scenario"
    /\ last.error = ""
    /\ last.args.scenario_id = 2
    /\ \E r \in scenario_assumptions :
          /\ r.scenario_id = 1
          /\ r.inflation_rate = Some(4)
          /\ r.nest_egg_growth_rate = NULL
    /\ \E r \in scenario_assumptions :
          /\ r.scenario_id = 2
          /\ r.inflation_rate = Some(4)
          /\ r.nest_egg_growth_rate = Some(5)
    /\ assets = InitAssets
    /\ plans = InitPlans

FlaggedIff(row, flag, field) == (row[flag] = 1) <=> ~IsNone(row[field])

====
